---- MODULE Spec2Model ----
(***************************************************************************)
(* Trust & Enforcement subsystem of nng-fastapi: the editor-grant          *)
(* workflow (routers/editor.py, services/editor_service.py), the watchdog  *)
(* violation escalation (routers/watchdog.py, services/watchdog_service.py)*)
(* and the ban sweep (services/ban_service.py).                            *)
(*                                                                         *)
(* Handlers run in a thread pool / several workers, so every handler is    *)
(* split at its store operations and external calls: one action per such   *)
(* call, local computation folded into the step that follows the read.     *)
(***************************************************************************)
EXTENDS Integers, Sequences, FiniteSets, TLC

(* ------------------------------ bounds -------------------------------- *)
NumGroups == 2
NumLogs == 2
MaxTime == 4
TickHours == 2
MaxHist == 2
MaxGroupsLen == 2
MaxViolations == 2
MaxDay == 1
MaxTaskRetries == 2

UserIds == {1, 2}
GroupIds == 1..NumGroups
LogIds == 1..NumLogs
RequestIds == {1, 2}
\* the ids default_1 and default_2 of _generate_task_id
TaskIds == {1, 2}
Workers == {"w1", "w2"}
\* managers_count values the platform reports
ManagerCounts == {0, 1}

\* Optional[date] = None
NoDate == -100000

(* --------------------------- program constants ------------------------ *)
TRUST_START_COUNT == 20
CooldownSeconds == 60 * 60 * 4
HourSeconds == 60 * 60
LastDayHours == 24

(* ------------------------ utils/trust_restrictions -------------------- *)
\* the trust guard that lets every trust through
allowed_to_receive_editor_any(trust) == trust >= 0

allowed_to_receive_editor(trust) == trust > 10

\* the table with a dip: trust 61..70 allows fewer groups than trust 51..60
get_groups_restriction_dip(trust) ==
    IF trust <= 10 THEN 0
    ELSE IF trust <= 20 THEN 1
    ELSE IF trust <= 30 THEN 3
    ELSE IF trust <= 40 THEN 5
    ELSE IF trust <= 50 THEN 10
    ELSE IF trust <= 60 THEN 15
    ELSE IF trust <= 70 THEN 10
    ELSE IF trust <= 80 THEN 25
    ELSE 30

\* the table with its second step one row too generous
get_groups_restriction_shifted(trust) ==
    IF trust <= 10 THEN 0
    ELSE IF trust <= 20 THEN 3
    ELSE IF trust <= 30 THEN 3
    ELSE IF trust <= 40 THEN 5
    ELSE IF trust <= 50 THEN 10
    ELSE IF trust <= 60 THEN 15
    ELSE IF trust <= 70 THEN 20
    ELSE IF trust <= 80 THEN 25
    ELSE 30

get_groups_restriction(trust) ==
    IF trust <= 10 THEN 0
    ELSE IF trust <= 20 THEN 1
    ELSE IF trust <= 30 THEN 3
    ELSE IF trust <= 40 THEN 5
    ELSE IF trust <= 50 THEN 10
    ELSE IF trust <= 60 THEN 15
    ELSE IF trust <= 70 THEN 20
    ELSE IF trust <= 80 THEN 25
    ELSE 30

(* ----------------------------- sequences ------------------------------ *)
RECURSIVE FilterSeq(_, _)
FilterSeq(s, keep) ==
    IF s = <<>> THEN <<>>
    ELSE IF Head(s) \in keep THEN <<Head(s)>> \o FilterSeq(Tail(s), keep)
    ELSE FilterSeq(Tail(s), keep)

Range(s) == {s[i] : i \in 1..Len(s)}

InSeq(x, s) == \E i \in 1..Len(s) : s[i] = x

RECURSIVE RemoveFirst(_, _)
RemoveFirst(s, x) ==
    IF s = <<>> THEN <<>>
    ELSE IF Head(s) = x THEN Tail(s)
    ELSE <<Head(s)>> \o RemoveFirst(Tail(s), x)

(* ------------------- nng_sdk user model (store side) ------------------ *)
has_active_violation(user) ==
    \E i \in 1..Len(user.violations) :
        user.violations[i].type = "banned" /\ user.violations[i].active

add_group(user, g) ==
    IF InSeq(g, user.groups) THEN user
    ELSE [user EXCEPT !.groups = Append(@, g)]

remove_group(user, g) == [user EXCEPT !.groups = RemoveFirst(@, g)]

(* ---------------- nng_sdk editor history (store side) ----------------- *)
\* an EditorHistory record; exists = FALSE stands for get_user_history -> None
NoHistory == [exists |-> FALSE, history |-> <<>>]

EditorHistory(items) == [exists |-> TRUE, history |-> items]

HistItem(g, t, granted, wip) ==
    [group_id |-> g, date |-> t, granted |-> granted, wip |-> wip]

WipItems(h) == FilterSeq(h.history, {x \in Range(h.history) : x.wip})

is_wip(h) == Len(WipItems(h)) > 0

clear_wip(h) ==
    EditorHistory(FilterSeq(h.history, {x \in Range(h.history) : ~x.wip}))

set_wip(h, g, t) == EditorHistory(Append(h.history, HistItem(g, t, FALSE, TRUE)))

add_granted_item(h, g, t) ==
    EditorHistory(Append(clear_wip(h).history, HistItem(g, t, TRUE, FALSE)))

add_non_granted_item(h, g, t) ==
    EditorHistory(Append(clear_wip(h).history, HistItem(g, t, FALSE, FALSE)))

clear_non_granted_items(h) ==
    IF ~h.exists THEN h
    ELSE EditorHistory(FilterSeq(h.history, {x \in Range(h.history) : x.granted}))

get_items_from_last_day(h, t) ==
    FilterSeq(h.history, {x \in Range(h.history) : t - x.date < LastDayHours})

(* ---------------------- nng_sdk violation model ----------------------- *)
ExpireDays == 1

is_expired(v, day) == day - v.date >= ExpireDays

has_warning(user, day) ==
    \E i \in 1..Len(user.violations) :
        user.violations[i].type = "warned" /\ ~is_expired(user.violations[i], day)

Violation(type, g, priority, day, active, watchdog_ref, request_ref) ==
    [type |-> type, group_id |-> g, priority |-> priority, date |-> day,
     active |-> active, watchdog_ref |-> watchdog_ref, request_ref |-> request_ref]

add_violation(user, v) == [user EXCEPT !.violations = Append(@, v)]

unban_user(user) ==
    [user EXCEPT !.violations =
        [i \in 1..Len(@) |-> IF @[i].type = "banned" THEN [@[i] EXCEPT !.active = FALSE]
                             ELSE @[i]]]

(* ------------------------ services/trust_service ---------------------- *)
\* the clamp without its upper bound
clamp_trust_lower_only(trust) == IF trust < 0 THEN 0 ELSE trust

clamp_trust(trust) ==
    IF trust < 0 THEN 0 ELSE IF trust > 100 THEN 100 ELSE trust

\* the tenure thresholds compared with < in place of <=
get_points_for_joined_strict(days) ==
    IF days < 30 * 6 THEN 0
    ELSE IF days < 30 * 12 THEN 5
    ELSE IF days < 30 * 24 THEN 15
    ELSE IF days < 30 * 48 THEN 20
    ELSE 25

get_points_for_joined(days) ==
    IF days < 30 * 6 THEN 0
    ELSE IF days <= 30 * 12 THEN 5
    ELSE IF days <= 30 * 24 THEN 15
    ELSE IF days <= 30 * 48 THEN 20
    ELSE 25

get_points_for_reg(days) == IF days < 30 * 6 THEN -10 ELSE 0

get_points_for_vk_profile(ti) ==
      (IF ti.closed_profile THEN -7 ELSE 0)
    + (IF ti.has_photo THEN 3 ELSE 0)
    + (IF ti.has_wall_posts THEN 3 ELSE 0)
    + (IF ti.has_friends THEN 3 ELSE 0)
    + (IF ti.verified THEN 25 ELSE 0)

get_points_for_api_profile(ti) ==
      (IF ti.odd_groups THEN -15 ELSE 0)
    + (IF ti.joined_test_group THEN 10 ELSE 0)
    + (IF ti.joined_main_group THEN 3 ELSE 0)
    + (IF ti.activism THEN 40 ELSE 0)
    + (IF ti.donate THEN 10 ELSE 0)

\* the violation term without the -5 of a past ban
get_points_for_violation_no_past(ti) ==
      (IF ti.has_violation THEN -100 ELSE 0)
    + (IF ti.has_warning THEN -10 ELSE 0)
    + (IF ti.had_warning THEN -5 ELSE 0)

get_points_for_violation(ti) ==
      (IF ti.has_violation THEN -100 ELSE 0)
    + (IF ti.had_violation THEN -5 ELSE 0)
    + (IF ti.has_warning THEN -10 ELSE 0)
    + (IF ti.had_warning THEN -5 ELSE 0)

get_points_for_invite(us, invited_by) ==
    IF invited_by \notin DOMAIN us \/ ~us[invited_by].exists THEN 0
    ELSE (us[invited_by].trust_info.trust * 5) \div 100

\* the TrustInfo built from the user record and the observed signals
get_trust_criteria(user, sig, day) ==
    [trust |-> TRUST_START_COUNT,
     registration_date |-> sig.registration_date,
     nng_join_date |-> user.trust_info.nng_join_date,
     odd_groups |-> sig.odd_groups,
     closed_profile |-> sig.closed_profile,
     has_photo |-> sig.has_photo,
     has_wall_posts |-> sig.has_wall_posts,
     has_friends |-> sig.has_friends,
     verified |-> sig.verified,
     joined_test_group |-> sig.joined_test_group,
     activism |-> user.trust_info.activism,
     has_violation |-> has_active_violation(user),
     had_violation |-> has_active_violation(user)
                       \/ \E i \in 1..Len(user.violations) : user.violations[i].type = "banned",
     had_warning |-> \E i \in 1..Len(user.violations) : user.violations[i].type = "warned",
     has_warning |-> has_warning(user, day),
     used_nng |-> sig.used_nng,
     joined_main_group |-> sig.joined_main_group,
     donate |-> FALSE]

calculate_trust(us, u, sig, day) ==
    LET user == us[u]
        c0 == get_trust_criteria(user, sig, day)
        c1 == [c0 EXCEPT !.verified = @ \/ user.trust_info.verified,
                         !.donate = @ \/ user.trust_info.donate]
        total == TRUST_START_COUNT
                 + (IF user.invited_by # 0
                    THEN get_points_for_invite(us, user.invited_by) ELSE 0)
                 + get_points_for_reg(IF c1.registration_date = NoDate THEN 0
                                      ELSE day - c1.registration_date)
                 + get_points_for_joined(IF c1.nng_join_date = NoDate THEN 0
                                         ELSE day - c1.nng_join_date)
                 + get_points_for_vk_profile(c1)
                 + get_points_for_api_profile(c1)
                 + get_points_for_violation(c1)
                 + (IF user.admin THEN 100 ELSE 0)
                 + (IF c1.used_nng THEN 3 ELSE 0)
    IN [c1 EXCEPT !.trust = clamp_trust(total)]

\* the stored part of a TrustInfo that the code reads back
StoredTrust(ti) ==
    [trust |-> ti.trust, verified |-> ti.verified, donate |-> ti.donate,
     activism |-> ti.activism, nng_join_date |-> ti.nng_join_date]

update_user_trust_info(user, ti) == [user EXCEPT !.trust_info = StoredTrust(ti)]

\* signal sets observed from the external platform
Signal(closed, photo, regdate) ==
    [closed_profile |-> closed, has_photo |-> photo, has_wall_posts |-> FALSE,
     has_friends |-> FALSE, verified |-> FALSE, joined_test_group |-> FALSE,
     joined_main_group |-> FALSE, odd_groups |-> FALSE, used_nng |-> FALSE,
     registration_date |-> regdate]

Signals ==
    { Signal(TRUE, FALSE, NoDate),      \* 20 - 10 - 7        = 3
      Signal(TRUE, TRUE, -200),       \* 20 + 0 - 7 + 3     = 16
      Signal(FALSE, TRUE, -200) }     \* 20 + 0 + 3         = 23

(* ------------- services/trust_service: signal collection ------------- *)
\* the external calls of get_trust_criteria, in the order the code makes them
CollectionCalls ==
    {"profile", "wall", "main_group", "test_group", "month_comments", "comments",
     "reg_date", "odd_groups"}

ErrorKinds == {"ApiError", "RuntimeError", "Other"}

\* at most one call of a recomputation fails, with an exception of some kind
NoFailure == [call |-> "none", kind |-> "none"]
Failures ==
    {NoFailure} \cup {[call |-> c, kind |-> k] : c \in CollectionCalls, k \in ErrorKinds}

\* the except clauses of get_trust_criteria that replace a failure by a default
\* with the registration-date clause left out
is_swallowed_without_reg_date(f) ==
    \/ f.call = "wall" /\ f.kind = "ApiError"
    \/ f.call = "odd_groups"

\* the except clauses of get_trust_criteria that replace a failure by a default
is_swallowed(f) ==
    \/ f.call = "wall" /\ f.kind = "ApiError"
    \/ f.call = "reg_date" /\ f.kind = "RuntimeError"
    \/ f.call = "odd_groups"

\* the failure leaves get_trust_criteria and calculate_trust re-raises it
collection_raises(f) == f.call # "none" /\ ~is_swallowed(f)

\* the signals get_trust_criteria goes on with after a swallowed failure
observed(sig, f) ==
    IF ~is_swallowed(f) THEN sig
    ELSE IF f.call = "wall" THEN [sig EXCEPT !.has_wall_posts = FALSE]
    ELSE IF f.call = "reg_date" THEN [sig EXCEPT !.registration_date = NoDate]
    ELSE [sig EXCEPT !.odd_groups = FALSE]

NoTrustOut == [user_id |-> 0, raised |-> FALSE, stored |-> TRUE, day |-> 0,
               failure |-> NoFailure, sig |-> Signal(FALSE, FALSE, NoDate),
               info |-> [trust |-> 0]]

\* calculate_trust(user_id) as its caller sees it: the TrustInfo, or the raise
try_calculate_trust(us, u, sig, f, day) ==
    IF ~us[u].exists \/ collection_raises(f)
    THEN [user_id |-> u, raised |-> TRUE, stored |-> TRUE, day |-> day,
          failure |-> f, sig |-> sig, info |-> [trust |-> 0]]
    ELSE [user_id |-> u, raised |-> FALSE, stored |-> FALSE, day |-> day,
          failure |-> f, sig |-> sig,
          info |-> calculate_trust(us, u, observed(sig, f), day)]

(* ------------------------------- state -------------------------------- *)
VARIABLES
    users,      \* postgres.users: user_id -> User record
    history,    \* postgres.editor_history: user_id -> EditorHistory
    cache,      \* GroupDataStorage().groups: group_id -> managers_count
    now,        \* datetime.now(), in hours
    today,      \* date.today(), in days
    pc,         \* position of each worker inside its handler
    arg,        \* the handler's arguments (user_id, group_id)
    luser,      \* the User object the handler holds after get_user
    target,     \* give_editor's target_group
    result,     \* what the last handler of the worker returned
    wlogs,      \* postgres.watchdog: watchdog_id -> Watchdog record
    llog,       \* the Watchdog object an update handler holds after get_log
    sweep,      \* ban sweep: position in all_groups and the external calls made
    trust_out,  \* what the last calculate_trust call returned, or that it raised
    requests,   \* postgres.requests: request_id -> Request record
    tqueue      \* the default TaskQueue: its tasks, its heap, the running process_queue

storeVars == <<users, history, cache>>
clockVars == <<now, today>>
grantVars == <<pc, arg, luser, target, result>>
\* state of the watchdog and ban handlers, untouched by the grant workflow
outsideGrant == <<wlogs, llog, sweep, trust_out>>
\* state of the request and queue services
serviceVars == <<requests, tqueue>>
vars == <<users, history, cache, now, today, pc, arg, luser, target, result,
          wlogs, llog, sweep, trust_out, requests, tqueue>>

NoUser ==
    [exists |-> FALSE, admin |-> FALSE, invited_by |-> 0, groups |-> <<>>,
     violations |-> <<>>,
     trust_info |-> [trust |-> 0, verified |-> FALSE, donate |-> FALSE,
                     activism |-> FALSE, nng_join_date |-> NoDate]]

\* a registered user whose trust was computed from the signals sig
NewUser(sig) ==
    LET u0 == [exists |-> TRUE, admin |-> FALSE, invited_by |-> 0, groups |-> <<>>,
               violations |-> <<>>,
               trust_info |-> [trust |-> 40, verified |-> FALSE, donate |-> FALSE,
                               activism |-> FALSE, nng_join_date |-> 0]]
        us == [x \in UserIds |-> u0]
    IN update_user_trust_info(u0, calculate_trust(us, 1, sig, 0))

\* the same user right after an approved complaint banned them (teal)
BannedUser(sig) ==
    add_violation(NewUser(sig), Violation("banned", 1, "teal", 0, TRUE, 0, 1))

\* a Watchdog record; exists = FALSE stands for ItemNotFoundException,
\* intruder = 0 for None
NoLog == [exists |-> FALSE, watchdog_id |-> 0, intruder |-> 0, group_id |-> 0,
          priority |-> "green", needs_ban_task |-> FALSE]

\* the loop of a ban sweep: the index in all_groups, the groups fuck_manager was
\* called for, the groups ban_in_group succeeded in; before keeps the user record
\* as it was stored when amnesty_user started; managed holds the groups whose
\* manager list named the user, revoked those where edit_manager succeeded
\* outdated is the list a pass of the scheduled trust sweep works through
NoSweep == [idx |-> 0, attempted |-> {}, banned |-> {}, before |-> NoUser,
            managed |-> {}, revoked |-> {}, outdated |-> <<>>]

\* a Request record; exists = FALSE stands for ItemNotFoundException, intruder
\* = 0 for None, vk_comment tells whether the complaint carries a comment link
NoRequest == [exists |-> FALSE, request_type |-> "complaint", user_id |-> 0,
              intruder |-> 0, vk_comment |-> FALSE, answered |-> FALSE,
              decision |-> FALSE]
NoRequests == [r \in RequestIds |-> NoRequest]

\* a QueuedTask; queued tells whether the heap _queue holds it, runs counts the
\* calls of its function; exists = FALSE stands for an id _tasks does not hold
NoTask == [exists |-> FALSE, priority |-> 0, status |-> "pending", retries |-> 0,
           max_retries |-> 0, queued |-> FALSE, runs |-> 0]

\* TaskQueue("default") after __init__; max_tasks (0 = None), processed and
\* results are the locals of the process_queue call in progress, gone when
\* it returns
NoQueue == [tasks |-> [t \in TaskIds |-> NoTask], max_tasks |-> 0, processed |-> 0,
            results |-> {}]

NoArg == [user_id |-> 0, group_id |-> 0]
GiveArg(u) == [user_id |-> u, group_id |-> 0]
NoResult == [status |-> "none", argument |-> 0]
Resp(status, argument) == [status |-> status, argument |-> argument]

InFlight(u) ==
    Cardinality({w \in Workers : pc[w] \notin {"idle", "done"} /\ arg[w].user_id = u})

\* bound on the length of the stored history: a handler adds at most one item
CanStart(u) == Len(history[u].history) + InFlight(u) < MaxHist

\* the handler of worker w, called with arguments a, returns r
ReturnAt(w, r, a) ==
    /\ pc' = [pc EXCEPT ![w] = "done"]
    /\ result' = [result EXCEPT ![w] = r]
    /\ arg' = [arg EXCEPT ![w] = a]
    /\ luser' = [luser EXCEPT ![w] = NoUser]
    /\ target' = [target EXCEPT ![w] = 0]

Return(w, r) == ReturnAt(w, r, arg[w])

Goto(w, label) ==
    /\ pc' = [pc EXCEPT ![w] = label]
    /\ UNCHANGED <<result, arg, luser>>

(* ----------------- services/editor_service: helpers ------------------- *)
\* the limit check with > in place of >=
is_limited_strict(user) ==
    Len(user.groups) > get_groups_restriction(user.trust_info.trust)

is_limited(user) ==
    Len(user.groups) >= get_groups_restriction(user.trust_info.trust)

\* the cooldown scan without its skip of non-granted items
user_on_cooldown_any_item(h, t) ==
    /\ h.exists
    /\ \E i \in 1..Len(h.history) :
          (t - h.history[i].date) * HourSeconds < CooldownSeconds

user_on_cooldown(h, t) ==
    /\ h.exists
    /\ \E i \in 1..Len(h.history) :
          /\ h.history[i].granted
          /\ (t - h.history[i].date) * HourSeconds < CooldownSeconds

NonGrantedLastDay(h, t) ==
    LET d == get_items_from_last_day(h, t)
    IN FilterSeq(d, {x \in Range(d) : ~x.granted})

\* groups of the cache the user is not editor of, in cache iteration order
PotentialGroups(user, c) ==
    FilterSeq([i \in 1..NumGroups |-> i], {g \in GroupIds : ~InSeq(g, user.groups)})

\* the first potential group, whatever its managers_count
choose_group_first(user, c) ==
    LET p == PotentialGroups(user, c)
    IN IF p = <<>> THEN 0 ELSE p[1]

\* 0 stands for CannotChooseGroupError
choose_group(user, c) ==
    LET p == PotentialGroups(user, c)
    IN IF p = <<>> THEN 0
       ELSE p[CHOOSE i \in 1..Len(p) :
                \A j \in 1..Len(p) :
                    \/ c[p[i]] < c[p[j]]
                    \/ (c[p[i]] = c[p[j]] /\ i <= j)]

(* ------------- requestGrant: give_editor, one step per call ----------- *)
\* get_user and the guards evaluated on the object it returned
GiveStart(w, u) ==
    /\ pc[w] = "idle"
    /\ CanStart(u)
    /\ UNCHANGED <<storeVars, clockVars, outsideGrant, serviceVars>>
    /\ IF ~users[u].exists THEN ReturnAt(w, Resp("fail_not_found", 0), GiveArg(u))
       ELSE IF has_active_violation(users[u])
       THEN ReturnAt(w, Resp("fail_banned", 0), GiveArg(u))
       ELSE IF users[u].trust_info.trust <= 10
       THEN ReturnAt(w, Resp("fail_low_trust", 0), GiveArg(u))
       ELSE IF is_limited(users[u]) THEN ReturnAt(w, Resp("fail_limit", 0), GiveArg(u))
       ELSE /\ pc' = [pc EXCEPT ![w] = "g_cooldown"]
            /\ arg' = [arg EXCEPT ![w] = GiveArg(u)]
            /\ luser' = [luser EXCEPT ![w] = users[u]]
            /\ result' = [result EXCEPT ![w] = NoResult]
            /\ UNCHANGED target

GiveCooldown(w) ==
    /\ pc[w] = "g_cooldown"
    /\ UNCHANGED <<storeVars, clockVars, outsideGrant, serviceVars>>
    /\ IF user_on_cooldown(history[arg[w].user_id], now)
       THEN Return(w, Resp("cooldown", 0))
       ELSE Goto(w, "g_iswip") /\ UNCHANGED target

GiveIsWip(w) ==
    /\ pc[w] = "g_iswip"
    /\ UNCHANGED <<storeVars, clockVars, outsideGrant, serviceVars>>
    /\ IF is_wip(history[arg[w].user_id])
       THEN Return(w, Resp("fail_wip", 0))
       ELSE Goto(w, "g_history") /\ UNCHANGED target

\* get_user_history and the target-group selection
GiveHistory(w) ==
    LET h == history[arg[w].user_id]
        pending == NonGrantedLastDay(h, now)
        t == IF pending # <<>> THEN pending[1].group_id
             ELSE choose_group(luser[w], cache)
    IN /\ pc[w] = "g_history"
       /\ UNCHANGED <<storeVars, clockVars, outsideGrant, serviceVars>>
       /\ IF ~h.exists THEN Return(w, Resp("raised", 0))
          ELSE IF t = 0 THEN Return(w, Resp("fail_no_group", 0))
          ELSE Goto(w, "g_setwip") /\ target' = [target EXCEPT ![w] = t]

GiveSetWip(w) ==
    /\ pc[w] = "g_setwip"
    /\ history' = [history EXCEPT ![arg[w].user_id] = set_wip(@, target[w], now)]
    /\ Goto(w, "g_refresh")
    /\ UNCHANGED <<users, cache, clockVars, target, outsideGrant, serviceVars>>

\* group_cache.update_group: get_groups_data answers managers_count = c or fails
GiveRefresh(w, c, ok) ==
    /\ pc[w] = "g_refresh"
    /\ UNCHANGED <<users, history, clockVars, outsideGrant, serviceVars>>
    /\ IF ok
       THEN /\ cache' = [cache EXCEPT ![target[w]] = c]
            /\ Goto(w, "g_member") /\ UNCHANGED target
       ELSE UNCHANGED cache /\ Return(w, Resp("raised", 0))

\* is_in_group answers True, False or fails
GiveMember(w) ==
    /\ pc[w] = "g_member"
    /\ UNCHANGED <<storeVars, clockVars, outsideGrant, serviceVars>>
    /\ \/ Goto(w, "g_edit") /\ UNCHANGED target
       \/ Goto(w, "g_nongranted") /\ UNCHANGED target
       \/ Return(w, Resp("raised", 0))

\* edit_manager(target_group, user_id, "editor") succeeds or fails
GiveEdit(w) ==
    /\ pc[w] = "g_edit"
    /\ UNCHANGED <<storeVars, clockVars, outsideGrant, serviceVars>>
    /\ \/ Goto(w, "g_granted") /\ UNCHANGED target
       \/ Return(w, Resp("raised", 0))

GiveGranted(w) ==
    /\ pc[w] = "g_granted"
    /\ history' = [history EXCEPT ![arg[w].user_id] = add_granted_item(@, target[w], now)]
    /\ Goto(w, "g_update")
    /\ UNCHANGED <<users, cache, clockVars, target, outsideGrant, serviceVars>>

\* user.groups.append(target_group); update_user(user)
GiveUpdate(w) ==
    /\ pc[w] = "g_update"
    /\ users' = [users EXCEPT ![arg[w].user_id] =
                    [luser[w] EXCEPT !.groups = Append(@, target[w])]]
    /\ Return(w, Resp("success", target[w]))
    /\ UNCHANGED <<history, cache, clockVars, outsideGrant, serviceVars>>

GiveNonGranted(w) ==
    /\ pc[w] = "g_nongranted"
    /\ history' = [history EXCEPT ![arg[w].user_id] =
                      add_non_granted_item(@, target[w], now)]
    /\ Return(w, Resp("join_group", target[w]))
    /\ UNCHANGED <<users, cache, clockVars, outsideGrant, serviceVars>>

(* ---- asynchronous fulfillment: safe_give_editor(user_id, group_id) ---- *)
FulfilStart(w, u, g) ==
    /\ pc[w] = "idle"
    /\ CanStart(u)
    /\ UNCHANGED <<storeVars, clockVars, outsideGrant, serviceVars>>
    /\ IF ~users[u].exists
       THEN ReturnAt(w, Resp("f_noop", 0), [user_id |-> u, group_id |-> g])
       ELSE /\ pc' = [pc EXCEPT ![w] =
                        IF has_active_violation(users[u])
                           \/ ~allowed_to_receive_editor(users[u].trust_info.trust)
                        THEN "f_clear" ELSE "f_history"]
            /\ arg' = [arg EXCEPT ![w] = [user_id |-> u, group_id |-> g]]
            /\ luser' = [luser EXCEPT ![w] = users[u]]
            /\ result' = [result EXCEPT ![w] = NoResult]
            /\ UNCHANGED target

\* the restricted user's pending attempts are left in place
FulfilClear_keeps(w) ==
    /\ pc[w] = "f_clear"
    /\ Return(w, Resp("f_cleared", 0))
    /\ UNCHANGED <<storeVars, clockVars, outsideGrant, serviceVars>>

FulfilClear(w) ==
    /\ pc[w] = "f_clear"
    /\ history' = [history EXCEPT ![arg[w].user_id] = clear_non_granted_items(@)]
    /\ Return(w, Resp("f_cleared", 0))
    /\ UNCHANGED <<users, cache, clockVars, outsideGrant, serviceVars>>

\* the same read without the test for a pending attempt
FulfilHistory_no_pending_check(w) ==
    LET h == history[arg[w].user_id]
    IN /\ pc[w] = "f_history"
       /\ UNCHANGED <<storeVars, clockVars, outsideGrant, serviceVars>>
       /\ IF ~h.exists
          THEN Return(w, Resp("f_noop", 0))
          ELSE IF WipItems(h) # <<>> THEN Return(w, Resp("f_noop", 0))
          ELSE Goto(w, "f_setwip") /\ UNCHANGED target

\* the same read without the WIP check
FulfilHistory_no_wip_check(w) ==
    LET h == history[arg[w].user_id]
    IN /\ pc[w] = "f_history"
       /\ UNCHANGED <<storeVars, clockVars, outsideGrant, serviceVars>>
       /\ IF ~h.exists \/ NonGrantedLastDay(h, now) = <<>>
          THEN Return(w, Resp("f_noop", 0))
          ELSE Goto(w, "f_setwip") /\ UNCHANGED target

\* get_user_history, the pending-attempt check and the WIP check on that read
FulfilHistory(w) ==
    LET h == history[arg[w].user_id]
    IN /\ pc[w] = "f_history"
       /\ UNCHANGED <<storeVars, clockVars, outsideGrant, serviceVars>>
       /\ IF ~h.exists \/ NonGrantedLastDay(h, now) = <<>>
          THEN Return(w, Resp("f_noop", 0))
          ELSE IF WipItems(h) # <<>> THEN Return(w, Resp("f_noop", 0))
          ELSE Goto(w, "f_setwip") /\ UNCHANGED target

FulfilSetWip(w) ==
    /\ pc[w] = "f_setwip"
    /\ history' = [history EXCEPT ![arg[w].user_id] = set_wip(@, arg[w].group_id, now)]
    /\ Goto(w, "f_member")
    /\ UNCHANGED <<users, cache, clockVars, target, outsideGrant, serviceVars>>

\* after the grace wait: is_in_group answers True, False or fails
FulfilMember(w) ==
    /\ pc[w] = "f_member"
    /\ UNCHANGED <<storeVars, clockVars, outsideGrant, serviceVars>>
    /\ \/ Goto(w, "f_edit") /\ UNCHANGED target
       \/ Goto(w, "f_clearwip") /\ UNCHANGED target
       \/ Return(w, Resp("f_captured", 0))

\* the user left the group and the wip item stays
FulfilClearWip_keeps(w) ==
    /\ pc[w] = "f_clearwip"
    /\ Return(w, Resp("f_left", arg[w].group_id))
    /\ UNCHANGED <<storeVars, clockVars, outsideGrant, serviceVars>>

FulfilClearWip(w) ==
    /\ pc[w] = "f_clearwip"
    /\ history' = [history EXCEPT ![arg[w].user_id] = clear_wip(@)]
    /\ Return(w, Resp("f_left", arg[w].group_id))
    /\ UNCHANGED <<users, cache, clockVars, outsideGrant, serviceVars>>

\* edit_manager inside the try block
FulfilEdit(w) ==
    /\ pc[w] = "f_edit"
    /\ UNCHANGED <<storeVars, clockVars, outsideGrant, serviceVars>>
    /\ \/ Goto(w, "f_granted") /\ UNCHANGED target
       \/ Goto(w, "f_nongranted") /\ UNCHANGED target

FulfilGranted(w) ==
    /\ pc[w] = "f_granted"
    /\ history' = [history EXCEPT ![arg[w].user_id] =
                      add_granted_item(@, arg[w].group_id, now)]
    /\ Return(w, Resp("f_granted", arg[w].group_id))
    /\ UNCHANGED <<users, cache, clockVars, outsideGrant, serviceVars>>

\* the except branch re-raising in place of recording the attempt
FulfilNonGranted_raises(w) ==
    /\ pc[w] = "f_nongranted"
    /\ Return(w, Resp("raised", arg[w].group_id))
    /\ UNCHANGED <<storeVars, clockVars, outsideGrant, serviceVars>>

FulfilNonGranted(w) ==
    /\ pc[w] = "f_nongranted"
    /\ history' = [history EXCEPT ![arg[w].user_id] =
                      add_non_granted_item(@, arg[w].group_id, now)]
    /\ Return(w, Resp("f_failed", arg[w].group_id))
    /\ UNCHANGED <<users, cache, clockVars, outsideGrant, serviceVars>>

(* ---------------- other writers of the user record -------------------- *)
\* routers/callback.py: group_officers_edit event for (user, group)
OfficersEdit(u, g, level_new) ==
    /\ users[u].exists
    /\ level_new # 0 => Len(users[u].groups) < MaxGroupsLen
    /\ users' = [users EXCEPT ![u] =
                    IF level_new = 0 THEN remove_group(@, g) ELSE add_group(@, g)]
    /\ UNCHANGED <<history, cache, clockVars, grantVars, outsideGrant, serviceVars>>

\* utils/users_utils.update_trust with the signals sig observed
UpdateTrust(u, sig) ==
    /\ users[u].exists
    /\ users' = [users EXCEPT ![u] =
                    update_user_trust_info(@, calculate_trust(users, u, sig, today))]
    /\ UNCHANGED <<history, cache, clockVars, grantVars, outsideGrant, serviceVars>>

\* the caller has read the response; the worker is free again
Finish(w) ==
    /\ pc[w] = "done"
    /\ pc' = [pc EXCEPT ![w] = "idle"]
    /\ result' = [result EXCEPT ![w] = NoResult]
    /\ arg' = [arg EXCEPT ![w] = NoArg]
    /\ UNCHANGED <<storeVars, clockVars, luser, target, outsideGrant, serviceVars>>

Tick ==
    /\ now < MaxTime
    /\ now' = now + TickHours
    /\ UNCHANGED <<storeVars, today, grantVars, outsideGrant, serviceVars>>

(* ------------------- the grant workflow specification ------------------ *)
InitHistories ==
    { NoHistory,
      EditorHistory(<<>>),
      EditorHistory(<<HistItem(1, 2 - LastDayHours, FALSE, FALSE)>>) }

Init ==
    /\ \E sig \in Signals : users = [u \in UserIds |-> IF u = 1 THEN NewUser(sig) ELSE NoUser]
    /\ \E h \in InitHistories : history = [u \in UserIds |-> IF u = 1 THEN h ELSE NoHistory]
    /\ cache \in [GroupIds -> ManagerCounts]
    /\ requests = NoRequests
    /\ tqueue = NoQueue
    /\ now = 0
    /\ today = 0
    /\ pc = [w \in Workers |-> "idle"]
    /\ arg = [w \in Workers |-> NoArg]
    /\ luser = [w \in Workers |-> NoUser]
    /\ target = [w \in Workers |-> 0]
    /\ result = [w \in Workers |-> NoResult]
    /\ wlogs = [l \in LogIds |-> NoLog]
    /\ llog = [w \in Workers |-> NoLog]
    /\ sweep = [w \in Workers |-> NoSweep]
    /\ trust_out = NoTrustOut

Next ==
    \/ \E w \in Workers, u \in UserIds : GiveStart(w, u)
    \/ \E w \in Workers : GiveCooldown(w)
    \/ \E w \in Workers : GiveIsWip(w)
    \/ \E w \in Workers : GiveHistory(w)
    \/ \E w \in Workers : GiveSetWip(w)
    \/ \E w \in Workers, c \in ManagerCounts, ok \in BOOLEAN : GiveRefresh(w, c, ok)
    \/ \E w \in Workers : GiveMember(w)
    \/ \E w \in Workers : GiveEdit(w)
    \/ \E w \in Workers : GiveGranted(w)
    \/ \E w \in Workers : GiveUpdate(w)
    \/ \E w \in Workers : GiveNonGranted(w)
    \/ \E w \in Workers, u \in UserIds, g \in GroupIds : FulfilStart(w, u, g)
    \/ \E w \in Workers : FulfilClear(w)
    \/ \E w \in Workers : FulfilHistory(w)
    \/ \E w \in Workers : FulfilSetWip(w)
    \/ \E w \in Workers : FulfilMember(w)
    \/ \E w \in Workers : FulfilClearWip(w)
    \/ \E w \in Workers : FulfilEdit(w)
    \/ \E w \in Workers : FulfilGranted(w)
    \/ \E w \in Workers : FulfilNonGranted(w)
    \/ \E w \in Workers : Finish(w)
    \/ Tick

Spec == Init /\ [][Next]_vars

(* --------------- services/user_service: restore / update -------------- *)
\* restore_user(user_id, group_id); ok = the group exists and, when the user is
\* not yet a manager there, edit_manager succeeded
RestoreUser(u, g, ok) ==
    /\ users[u].exists
    /\ Len(users[u].groups) < MaxGroupsLen
    /\ users' = [users EXCEPT ![u] =
                    IF ok THEN [@ EXCEPT !.groups = Append(@, g)] ELSE @]
    /\ UNCHANGED <<history, cache, clockVars, grantVars, outsideGrant, serviceVars>>

\* utils/users_utils.try_ban_user_as_teal for the comment's group g (0 = none)
TealBan(u, g, request_id) ==
    /\ users[u].exists
    /\ Len(users[u].violations) < MaxViolations
    /\ users' = [users EXCEPT ![u] =
                    add_violation(@, Violation("banned", g, "teal", today, TRUE, 0, request_id))]
    /\ UNCHANGED <<history, cache, clockVars, grantVars, outsideGrant, serviceVars>>

\* the lists <<>>, <<1>>, <<1, 2>>, ... an operator may submit
GroupLists ==
    {[i \in 1..n |-> i] : n \in {k \in 0..MaxGroupsLen : k <= NumGroups}}

\* update_user(user_id, groups = gs), the other fields left as None
UpdateUser(u, gs) ==
    /\ users[u].exists
    /\ users' = [users EXCEPT ![u] = [@ EXCEPT !.groups = gs]]
    /\ UNCHANGED <<history, cache, clockVars, grantVars, outsideGrant, serviceVars>>

(* ------ requestGrant among the other writers of the user record ------- *)
\* one request at a time; the record's other writers run between its steps
LimitWorkers == {"w1"}

NextLimit ==
    \/ \E w \in LimitWorkers, u \in UserIds : GiveStart(w, u)
    \/ \E w \in LimitWorkers : GiveCooldown(w)
    \/ \E w \in LimitWorkers : GiveIsWip(w)
    \/ \E w \in LimitWorkers : GiveHistory(w)
    \/ \E w \in LimitWorkers : GiveSetWip(w)
    \/ \E w \in LimitWorkers, ok \in BOOLEAN : GiveRefresh(w, 0, ok)
    \/ \E w \in LimitWorkers : GiveMember(w)
    \/ \E w \in LimitWorkers : GiveEdit(w)
    \/ \E w \in LimitWorkers : GiveGranted(w)
    \/ \E w \in LimitWorkers : GiveUpdate(w)
    \/ \E w \in LimitWorkers : GiveNonGranted(w)
    \/ \E w \in LimitWorkers : Finish(w)
    \/ \E u \in UserIds, g \in GroupIds, l \in {0, 3} : OfficersEdit(u, g, l)
    \/ \E u \in UserIds, sig \in Signals : UpdateTrust(u, sig)
    \/ \E u \in UserIds, g \in GroupIds, ok \in BOOLEAN : RestoreUser(u, g, ok)
    \/ \E u \in UserIds, gs \in GroupLists : UpdateUser(u, gs)

\* the user has an empty history record and the cache was just refreshed
InitLimit ==
    /\ \E sig \in Signals, banned \in BOOLEAN :
          users = [u \in UserIds |->
                      IF u # 1 THEN NoUser
                      ELSE IF banned THEN BannedUser(sig) ELSE NewUser(sig)]
    /\ history = [u \in UserIds |-> IF u = 1 THEN EditorHistory(<<>>) ELSE NoHistory]
    /\ cache = [g \in GroupIds |-> 0]
    /\ requests = NoRequests
    /\ tqueue = NoQueue
    /\ now = 0
    /\ today = 0
    /\ pc = [w \in Workers |-> "idle"]
    /\ arg = [w \in Workers |-> NoArg]
    /\ luser = [w \in Workers |-> NoUser]
    /\ target = [w \in Workers |-> 0]
    /\ result = [w \in Workers |-> NoResult]
    /\ wlogs = [l \in LogIds |-> NoLog]
    /\ llog = [w \in Workers |-> NoLog]
    /\ sweep = [w \in Workers |-> NoSweep]
    /\ trust_out = NoTrustOut

SpecLimit == InitLimit /\ [][NextLimit]_vars

(* --- one requestGrant call at a time, among callback events and time --- *)
GrantWorkers == {"w1"}

NextGrant ==
    \/ \E w \in GrantWorkers, u \in UserIds : GiveStart(w, u)
    \/ \E w \in GrantWorkers : GiveCooldown(w)
    \/ \E w \in GrantWorkers : GiveIsWip(w)
    \/ \E w \in GrantWorkers : GiveHistory(w)
    \/ \E w \in GrantWorkers : GiveSetWip(w)
    \/ \E w \in GrantWorkers, ok \in BOOLEAN : GiveRefresh(w, 0, ok)
    \/ \E w \in GrantWorkers : GiveMember(w)
    \/ \E w \in GrantWorkers : GiveEdit(w)
    \/ \E w \in GrantWorkers : GiveGranted(w)
    \/ \E w \in GrantWorkers : GiveUpdate(w)
    \/ \E w \in GrantWorkers : GiveNonGranted(w)
    \/ \E w \in GrantWorkers : Finish(w)
    \/ \E u \in UserIds, g \in GroupIds, l \in {0, 3} : OfficersEdit(u, g, l)
    \/ Tick

SpecGrant == Init /\ [][NextGrant]_vars

(* ---- one asynchronous fulfillment, among callback events and time ---- *)
FulfilWorkers == {"w1"}

NextFulfil ==
    \/ \E w \in FulfilWorkers, u \in UserIds, g \in GroupIds : FulfilStart(w, u, g)
    \/ \E w \in FulfilWorkers : FulfilClear(w)
    \/ \E w \in FulfilWorkers : FulfilHistory(w)
    \/ \E w \in FulfilWorkers : FulfilSetWip(w)
    \/ \E w \in FulfilWorkers : FulfilMember(w)
    \/ \E w \in FulfilWorkers : FulfilClearWip(w)
    \/ \E w \in FulfilWorkers : FulfilEdit(w)
    \/ \E w \in FulfilWorkers : FulfilGranted(w)
    \/ \E w \in FulfilWorkers : FulfilNonGranted(w)
    \/ \E u \in UserIds, g \in GroupIds, l \in {0, 3} : OfficersEdit(u, g, l)
    \/ Tick

\* a user, banned or not, with an attempt of 22 hours ago waiting for the join
\* the histories user 1 starts with: an attempt that is about to leave the
\* last day, a grant, or a wip item left behind by a call that raised
FulfilHistories ==
    { <<HistItem(1, 2 - LastDayHours, FALSE, FALSE)>>,
      <<HistItem(1, 0, TRUE, FALSE)>>,
      <<HistItem(1, 0, FALSE, TRUE)>> }

InitFulfil ==
    /\ \E sig \in Signals, banned \in BOOLEAN :
          users = [u \in UserIds |->
                      IF u # 1 THEN NoUser
                      ELSE IF banned THEN BannedUser(sig) ELSE NewUser(sig)]
    /\ \E items \in FulfilHistories :
          history = [u \in UserIds |->
                        IF u = 1 THEN EditorHistory(items) ELSE NoHistory]
    /\ cache = [g \in GroupIds |-> 0]
    /\ requests = NoRequests
    /\ tqueue = NoQueue
    /\ now = 0
    /\ today = 0
    /\ pc = [w \in Workers |-> "idle"]
    /\ arg = [w \in Workers |-> NoArg]
    /\ luser = [w \in Workers |-> NoUser]
    /\ target = [w \in Workers |-> 0]
    /\ result = [w \in Workers |-> NoResult]
    /\ wlogs = [l \in LogIds |-> NoLog]
    /\ llog = [w \in Workers |-> NoLog]
    /\ sweep = [w \in Workers |-> NoSweep]
    /\ trust_out = NoTrustOut

SpecFulfil == InitFulfil /\ [][NextFulfil]_vars


(* ========================= routers/watchdog.py ======================== *)
Priorities == {"green", "red"}
\* the groups the reports come from
WatchGroups == {1}

\* is_valid_green: a green warning that has not expired
\* the test of a green warning that also counts the expired ones
is_valid_green_any_age(v, day) ==
    v.type = "warned" /\ v.priority = "green"

is_valid_green(v, day) ==
    v.type = "warned" /\ v.priority = "green" /\ ~is_expired(v, day)

ValidGreens(violations, day) ==
    FilterSeq(violations, {v \in Range(violations) : is_valid_green(v, day)})

\* the escalation rule with the ban already on the second report
green_violation_type_early(violations, day) ==
    IF Len(ValidGreens(violations, day)) < 1 THEN "warned" ELSE "banned"

\* try_ban_as_green: the type of the violation it appends
green_violation_type(violations, day) ==
    IF Len(ValidGreens(violations, day)) < 2 THEN "warned" ELSE "banned"

\* the duplicate check with the active flag inverted
check_violation_exists_inactive(violations, g, day) ==
    \E i \in 1..Len(violations) :
        /\ violations[i].group_id = g
        /\ ~violations[i].active
        /\ violations[i].date = day

\* check_violation_exists over the violations it has just read
check_violation_exists(violations, g, day) ==
    \E i \in 1..Len(violations) :
        /\ violations[i].group_id = g
        /\ violations[i].active
        /\ violations[i].date = day

\* handlers and background tasks that are about to append a violation for u
InFlightBans(u) ==
    Cardinality({w \in Workers : pc[w] \in {"u_write", "t_get", "t_green", "t_add"}
                                 /\ llog[w].needs_ban_task /\ llog[w].intruder = u})

CanEscalate(u) == Len(users[u].violations) + InFlightBans(u) < MaxViolations

FreeLogIds == {l \in LogIds : ~wlogs[l].exists}

\* PUT /watchdog/add: upload_or_update_log stores the log under a new id
AddLog(intruder, g, priority) ==
    /\ FreeLogIds # {}
    /\ LET l == CHOOSE x \in FreeLogIds : \A y \in FreeLogIds : x <= y
       IN wlogs' = [wlogs EXCEPT ![l] =
                       [exists |-> TRUE, watchdog_id |-> l, intruder |-> intruder,
                        group_id |-> g, priority |-> priority,
                        needs_ban_task |-> FALSE]]
    /\ UNCHANGED <<storeVars, clockVars, trust_out, grantVars, llog, sweep, serviceVars>>

\* the handler or background task of worker w is over
TaskEnd(w) ==
    /\ pc' = [pc EXCEPT ![w] = "idle"]
    /\ luser' = [luser EXCEPT ![w] = NoUser]
    /\ llog' = [llog EXCEPT ![w] = NoLog]
    /\ result' = [result EXCEPT ![w] = NoResult]
    /\ UNCHANGED <<arg, target>>

\* the escalation of worker w is past add_violation; r is what follows it: the
\* websocket notification it broadcasts, the exception captured inside it or
\* the exception that leaves it
TaskEndWith(w, r) ==
    /\ pc' = [pc EXCEPT ![w] = "t_out"]
    /\ luser' = [luser EXCEPT ![w] = NoUser]
    /\ llog' = [llog EXCEPT ![w] = NoLog]
    /\ result' = [result EXCEPT ![w] = r]
    /\ UNCHANGED <<arg, target>>

\* the broadcast is sent, or the exception is out, and the task is over
TaskOut(w) ==
    /\ pc[w] = "t_out"
    /\ TaskEnd(w)
    /\ UNCHANGED <<storeVars, clockVars, trust_out, wlogs, sweep, serviceVars>>

\* post_watchdog_additional_info up to its write: get_log, group_id, the test
\* of log.intruder, check_and_throw_user and background_tasks.add_task; a 404
\* (log or user not found) leaves everything as it was
UpdStart(w, l, intruder, g) ==
    /\ pc[w] = "idle"
    /\ intruder # 0 => CanEscalate(intruder)
    /\ LET log == IF g # 0 THEN [wlogs[l] EXCEPT !.group_id = g] ELSE wlogs[l]
           sets == intruder # 0 /\ log.intruder = 0
       IN IF ~wlogs[l].exists \/ (sets /\ ~users[intruder].exists)
          THEN UNCHANGED <<grantVars, llog>>
          ELSE /\ llog' = [llog EXCEPT ![w] =
                             IF sets THEN [log EXCEPT !.intruder = intruder,
                                                      !.needs_ban_task = TRUE]
                             ELSE log]
               /\ pc' = [pc EXCEPT ![w] = "u_write"]
               /\ UNCHANGED <<arg, luser, target, result>>
    /\ UNCHANGED <<storeVars, clockVars, trust_out, wlogs, sweep, serviceVars>>

\* upload_or_update_log(log) and the response; the scheduled task runs next
UpdWrite(w) ==
    /\ pc[w] = "u_write"
    /\ wlogs' = [wlogs EXCEPT ![llog[w].watchdog_id] =
                    [llog[w] EXCEPT !.needs_ban_task = FALSE]]
    /\ IF llog[w].needs_ban_task
       THEN /\ pc' = [pc EXCEPT ![w] = "t_get"]
            /\ UNCHANGED <<arg, luser, target, result, llog>>
       ELSE TaskEnd(w)
    /\ UNCHANGED <<storeVars, clockVars, trust_out, sweep, serviceVars>>

\* try_ban_and_notify_user: get_user; for a non-green log also the second
\* get_user of check_violation_exists and its scan
TaskGetUser(w) ==
    /\ pc[w] = "t_get"
    /\ LET user == users[llog[w].intruder]
       IN IF ~user.exists
          THEN TaskEnd(w)
          ELSE IF llog[w].priority = "green"
          THEN /\ luser' = [luser EXCEPT ![w] = user]
               /\ pc' = [pc EXCEPT ![w] = "t_green"]
               /\ UNCHANGED <<arg, target, result, llog>>
          ELSE IF check_violation_exists(user.violations, llog[w].group_id, today)
          THEN TaskEnd(w)
          ELSE /\ luser' = [luser EXCEPT ![w] = user]
               /\ pc' = [pc EXCEPT ![w] = "t_add"]
               /\ UNCHANGED <<arg, target, result, llog>>
    /\ UNCHANGED <<storeVars, clockVars, trust_out, wlogs, sweep, serviceVars>>

\* the log_type of the notification for a violation of the given type
log_type(type) == IF type = "banned" THEN "new_ban" ELSE "new_warning"

\* try_ban_as_green: ban_and_send_log; ok = add_violation succeeds, and the
\* broadcast follows it; a failure is captured inside ban_and_send_log
TaskGreen(w, ok) ==
    /\ pc[w] = "t_green"
    /\ LET type == green_violation_type(luser[w].violations, today)
           v == Violation(type, llog[w].group_id, "green", today, type = "banned",
                          llog[w].watchdog_id, 0)
       IN IF ok
          THEN /\ users' = [users EXCEPT ![llog[w].intruder] = add_violation(@, v)]
               /\ TaskEndWith(w, Resp(log_type(type), llog[w].watchdog_id))
          ELSE /\ users' = users
               /\ TaskEndWith(w, Resp("captured", llog[w].watchdog_id))
    /\ UNCHANGED <<history, cache, clockVars, trust_out, wlogs, sweep, serviceVars>>

\* the non-green add_violation and the broadcast after it; ok = add_violation
\* succeeds; its failure leaves try_ban_and_notify_user as an exception
TaskAdd(w, ok) ==
    /\ pc[w] = "t_add"
    /\ LET v == Violation("banned", llog[w].group_id, llog[w].priority, today, TRUE,
                          llog[w].watchdog_id, 0)
       IN IF ok
          THEN /\ users' = [users EXCEPT ![llog[w].intruder] = add_violation(@, v)]
               /\ TaskEndWith(w, Resp("new_ban", llog[w].watchdog_id))
          ELSE /\ users' = users
               /\ TaskEndWith(w, Resp("raised", llog[w].watchdog_id))
    /\ UNCHANGED <<history, cache, clockVars, trust_out, wlogs, sweep, serviceVars>>

\* services/ban_service.amnesty_user as the users table sees it: unban_user,
\* then the trust recomputed from the signals sig unless the recomputation raises
Amnesty(u, sig, ok) ==
    /\ users[u].exists
    /\ LET unbanned == [users EXCEPT ![u] = unban_user(@)]
       IN users' = IF ok
                   THEN [unbanned EXCEPT ![u] =
                            update_user_trust_info(@, calculate_trust(unbanned, u, sig, today))]
                   ELSE unbanned
    /\ UNCHANGED <<history, cache, clockVars, grantVars, outsideGrant, serviceVars>>

\* datetime.date.today() moves on
NextDay ==
    /\ today < MaxDay
    /\ today' = today + 1
    /\ UNCHANGED <<storeVars, now, grantVars, outsideGrant, serviceVars>>

\* the teal ban of an approved complaint while escalations are in flight
TealBanW(u, g, request_id) ==
    /\ CanEscalate(u)
    /\ TealBan(u, g, request_id)

WatchSignal == Signal(FALSE, TRUE, -200)

InitWatch ==
    /\ users = [u \in UserIds |-> IF u = 1 THEN NewUser(WatchSignal) ELSE NoUser]
    /\ history = [u \in UserIds |-> NoHistory]
    /\ cache = [g \in GroupIds |-> 0]
    /\ requests = NoRequests
    /\ tqueue = NoQueue
    /\ now = 0
    /\ today = 0
    /\ pc = [w \in Workers |-> "idle"]
    /\ arg = [w \in Workers |-> NoArg]
    /\ luser = [w \in Workers |-> NoUser]
    /\ target = [w \in Workers |-> 0]
    /\ result = [w \in Workers |-> NoResult]
    /\ wlogs = [l \in LogIds |-> NoLog]
    /\ llog = [w \in Workers |-> NoLog]
    /\ sweep = [w \in Workers |-> NoSweep]
    /\ trust_out = NoTrustOut

\* concurrent updates of the logs and the tasks they schedule
NextWatch ==
    \/ \E g \in WatchGroups, p \in Priorities : AddLog(0, g, p)
    \/ \E w \in Workers, l \in LogIds, u \in UserIds : UpdStart(w, l, u, 0)
    \/ \E w \in Workers : UpdWrite(w)
    \/ \E w \in Workers : TaskGetUser(w)
    \/ \E w \in Workers, ok \in BOOLEAN : TaskGreen(w, ok)
    \/ \E w \in Workers, ok \in BOOLEAN : TaskAdd(w, ok)
    \/ \E w \in Workers : TaskOut(w)

SpecWatch == InitWatch /\ [][NextWatch]_vars

\* one report at a time, among teal bans, amnesties and the change of the date
EscalateWorkers == {"w1"}

NextEscalate ==
    \/ \E g \in WatchGroups, p \in Priorities : AddLog(0, g, p)
    \/ \E w \in EscalateWorkers, l \in LogIds, u \in UserIds : UpdStart(w, l, u, 0)
    \/ \E w \in EscalateWorkers : UpdWrite(w)
    \/ \E w \in EscalateWorkers : TaskGetUser(w)
    \/ \E w \in EscalateWorkers, ok \in BOOLEAN : TaskGreen(w, ok)
    \/ \E w \in EscalateWorkers, ok \in BOOLEAN : TaskAdd(w, ok)
    \/ \E w \in EscalateWorkers : TaskOut(w)
    \/ \E u \in UserIds, g \in {0, 1} : TealBanW(u, g, 1)
    \/ \E u \in UserIds : Amnesty(u, WatchSignal, TRUE)
    \/ NextDay

SpecEscalate == InitWatch /\ [][NextEscalate]_vars

\* a green warning of an earlier report, and the ban of an earlier red report
\* about group 1, standing or lifted by an amnesty
GreenWarning(day) == Violation("warned", 1, "green", day, FALSE, 0, 0)
RedBan(day, active) == Violation("banned", 1, "red", day, active, 0, 0)

\* the violations user 1 holds when the report arrives
ReportRecords ==
    { <<>>, <<GreenWarning(0)>>, <<GreenWarning(0), GreenWarning(0)>>,
      <<RedBan(0, TRUE)>>, <<RedBan(0, FALSE)>> }

\* the log of the report once its intruder is stored
ReportLog(priority) ==
    [exists |-> TRUE, watchdog_id |-> 1, intruder |-> 1, group_id |-> 1,
     priority |-> priority, needs_ban_task |-> FALSE]

\* post_watchdog_additional_info has stored the intruder of log 1 and the
\* task it scheduled, try_ban_and_notify_user, starts
InitReport ==
    /\ \E vs \in ReportRecords :
          users = [u \in UserIds |->
                      IF u = 1 THEN [NewUser(WatchSignal) EXCEPT !.violations = vs]
                      ELSE NoUser]
    /\ history = [u \in UserIds |-> NoHistory]
    /\ cache = [g \in GroupIds |-> 0]
    /\ requests = NoRequests
    /\ tqueue = NoQueue
    /\ now = 0
    /\ today \in 0..MaxDay
    /\ \E p \in Priorities :
          /\ wlogs = [l \in LogIds |-> IF l = 1 THEN ReportLog(p) ELSE NoLog]
          /\ llog = [w \in Workers |->
                        IF w \in EscalateWorkers
                        THEN [ReportLog(p) EXCEPT !.needs_ban_task = TRUE]
                        ELSE NoLog]
    /\ pc = [w \in Workers |-> IF w \in EscalateWorkers THEN "t_get" ELSE "idle"]
    /\ arg = [w \in Workers |-> NoArg]
    /\ luser = [w \in Workers |-> NoUser]
    /\ target = [w \in Workers |-> 0]
    /\ result = [w \in Workers |-> NoResult]
    /\ sweep = [w \in Workers |-> NoSweep]
    /\ trust_out = NoTrustOut

\* the task of the report, then further reports one at a time
NextReport ==
    \/ \E g \in WatchGroups, p \in Priorities : AddLog(0, g, p)
    \/ \E w \in EscalateWorkers, l \in LogIds, u \in UserIds : UpdStart(w, l, u, 0)
    \/ \E w \in EscalateWorkers : UpdWrite(w)
    \/ \E w \in EscalateWorkers : TaskGetUser(w)
    \/ \E w \in EscalateWorkers, ok \in BOOLEAN : TaskGreen(w, ok)
    \/ \E w \in EscalateWorkers, ok \in BOOLEAN : TaskAdd(w, ok)
    \/ \E w \in EscalateWorkers : TaskOut(w)
    \/ NextDay

SpecReport == InitReport /\ [][NextReport]_vars


(* ===================== services/ban_service.py ======================== *)
\* ban_user_in_groups(user_id) starts
BanStart(w, u) ==
    /\ pc[w] = "idle"
    /\ pc' = [pc EXCEPT ![w] = "b_trust"]
    /\ arg' = [arg EXCEPT ![w] = GiveArg(u)]
    /\ sweep' = [sweep EXCEPT ![w] = NoSweep]
    /\ UNCHANGED <<storeVars, clockVars, trust_out, luser, target, result, wlogs, llog, serviceVars>>

\* recalculate_trust: calculate_trust over the signals sig, or it raises
\* (ok = FALSE) and the exception leaves ban_user_in_groups
BanTrust(w, sig, ok) ==
    /\ pc[w] = "b_trust"
    /\ LET u == arg[w].user_id
       IN IF ok /\ users[u].exists
          THEN /\ users' = [users EXCEPT ![u] =
                              update_user_trust_info(@, calculate_trust(users, u, sig, today))]
               /\ Goto(w, "b_clear") /\ UNCHANGED target
          ELSE /\ UNCHANGED users
               /\ Return(w, Resp("ban_raised", u))
    /\ UNCHANGED <<history, cache, clockVars, outsideGrant, serviceVars>>

\* the sweep starts while the stored groups are left as they were
BanClear_keeps_groups(w) ==
    /\ pc[w] = "b_clear"
    /\ sweep' = [sweep EXCEPT ![w].idx = 1]
    /\ Goto(w, "b_list") /\ UNCHANGED target
    /\ UNCHANGED <<storeVars, clockVars, trust_out, wlogs, llog, serviceVars>>

\* get_all_groups, get_user, user.groups = [], update_user(user)
BanClear(w) ==
    /\ pc[w] = "b_clear"
    /\ LET u == arg[w].user_id
       IN /\ users' = [users EXCEPT ![u] = [@ EXCEPT !.groups = <<>>]]
          /\ sweep' = [sweep EXCEPT ![w].idx = 1]
          /\ Goto(w, "b_list") /\ UNCHANGED target
    /\ UNCHANGED <<history, cache, clockVars, trust_out, wlogs, llog, serviceVars>>

\* the for loop moves to the next group, or ban_user_in_groups returns
NextGroup(w, banned) ==
    /\ sweep' = [sweep EXCEPT ![w] =
                    [idx |-> @.idx + 1,
                     attempted |-> @.attempted \cup {@.idx},
                     banned |-> IF banned THEN @.banned \cup {@.idx} ELSE @.banned,
                     before |-> @.before,
                     managed |-> @.managed, revoked |-> @.revoked,
                     outdated |-> @.outdated]]
    /\ IF sweep[w].idx = NumGroups
       THEN Return(w, Resp("ban_finished", arg[w].user_id))
       ELSE Goto(w, "b_list") /\ UNCHANGED target

\* the exception of an external call leaves fuck_manager and the loop
SweepRaises(w) ==
    /\ sweep' = [sweep EXCEPT ![w].attempted = @ \cup {sweep[w].idx}]
    /\ Return(w, Resp("ban_raised", arg[w].user_id))

\* fuck_manager: get_all_managers(group_id) and the test of user in managers
BanList(w, outcome) ==
    /\ pc[w] = "b_list"
    /\ CASE outcome = "raises" -> SweepRaises(w)
         [] outcome = "manager" ->
               /\ sweep' = [sweep EXCEPT ![w].managed = @ \cup {sweep[w].idx}]
               /\ Goto(w, "b_revoke") /\ UNCHANGED target
         [] OTHER -> Goto(w, "b_ban") /\ UNCHANGED <<target, sweep>>
    /\ UNCHANGED <<storeVars, clockVars, trust_out, wlogs, llog, serviceVars>>

\* user not in managers: ban_in_group inside try/except
BanPlain(w, ok) ==
    /\ pc[w] = "b_ban"
    /\ NextGroup(w, ok)
    /\ UNCHANGED <<storeVars, clockVars, trust_out, wlogs, llog, serviceVars>>

\* the revocation whose failure does not stop the ban of the group
BanRevoke_bans_anyway(w, ok) ==
    /\ pc[w] = "b_revoke"
    /\ sweep' = [sweep EXCEPT ![w].revoked =
                    IF ok THEN @ \cup {sweep[w].idx} ELSE @]
    /\ Goto(w, "b_ban_after") /\ UNCHANGED target
    /\ UNCHANGED <<storeVars, clockVars, trust_out, wlogs, llog, serviceVars>>

\* edit_manager(group_id, user) inside try/except; else: goes on to the ban
BanRevoke(w, ok) ==
    /\ pc[w] = "b_revoke"
    /\ IF ok
       THEN /\ sweep' = [sweep EXCEPT ![w].revoked = @ \cup {sweep[w].idx}]
            /\ Goto(w, "b_ban_after") /\ UNCHANGED target
       ELSE NextGroup(w, FALSE)
    /\ UNCHANGED <<storeVars, clockVars, trust_out, wlogs, llog, serviceVars>>

\* the else: branch, ban_in_group outside the try
BanAfterRevoke(w, ok) ==
    /\ pc[w] = "b_ban_after"
    /\ IF ok THEN NextGroup(w, TRUE) ELSE SweepRaises(w)
    /\ UNCHANGED <<storeVars, clockVars, trust_out, wlogs, llog, serviceVars>>

\* amnesty_user(user) starts as the background task of an approved unblock request
AmnestyStart(w, u) ==
    /\ pc[w] = "idle"
    /\ users[u].exists
    /\ pc' = [pc EXCEPT ![w] = "a_unban"]
    /\ arg' = [arg EXCEPT ![w] = GiveArg(u)]
    /\ sweep' = [sweep EXCEPT ![w] = [NoSweep EXCEPT !.before = users[u]]]
    /\ UNCHANGED <<storeVars, clockVars, trust_out, luser, target, result, wlogs, llog, serviceVars>>

\* postgres.users.unban_user(user)
AmnestyUnban(w) ==
    /\ pc[w] = "a_unban"
    /\ users' = [users EXCEPT ![arg[w].user_id] = unban_user(@)]
    /\ Goto(w, "a_trust") /\ UNCHANGED target
    /\ UNCHANGED <<history, cache, clockVars, outsideGrant, serviceVars>>

\* recalculate_trust, before the unban loop and after it: the collection call
\* f fails, and the exception leaves amnesty_user unless it is swallowed
AmnestyTrust(w, sig, f) ==
    /\ pc[w] \in {"a_trust", "a_trust_again"}
    /\ LET u == arg[w].user_id
           out == try_calculate_trust(users, u, sig, f, today)
       IN IF out.raised
          THEN /\ UNCHANGED <<users, sweep>>
               /\ Return(w, Resp("amnesty_raised", u))
          ELSE /\ users' = [users EXCEPT ![u] = update_user_trust_info(@, out.info)]
               /\ IF pc[w] = "a_trust"
                  THEN /\ sweep' = [sweep EXCEPT ![w].idx = 1]
                       /\ Goto(w, "a_group") /\ UNCHANGED target
                  ELSE /\ UNCHANGED sweep
                       /\ Return(w, Resp("amnesty_finished", u))
    /\ UNCHANGED <<history, cache, clockVars, trust_out, wlogs, llog, serviceVars>>

\* the unban loop that a failed unban_in_group ends
AmnestyUnbanGroup_aborts(w, ok) ==
    /\ pc[w] = "a_group"
    /\ sweep' = [sweep EXCEPT ![w].idx = @ + 1,
                              ![w].attempted = @ \cup {sweep[w].idx},
                              ![w].banned = IF ok THEN @ \cup {sweep[w].idx} ELSE @]
    /\ Goto(w, IF sweep[w].idx = NumGroups \/ ~ok THEN "a_trust_again" ELSE "a_group")
    /\ UNCHANGED target
    /\ UNCHANGED <<storeVars, clockVars, trust_out, wlogs, llog, serviceVars>>

\* unban_user_in_groups: unban_in_group inside try/except, for every group
AmnestyUnbanGroup(w, ok) ==
    /\ pc[w] = "a_group"
    /\ sweep' = [sweep EXCEPT ![w].idx = @ + 1,
                              ![w].attempted = @ \cup {sweep[w].idx},
                              ![w].banned = IF ok THEN @ \cup {sweep[w].idx} ELSE @]
    /\ Goto(w, IF sweep[w].idx = NumGroups THEN "a_trust_again" ELSE "a_group")
    /\ UNCHANGED target
    /\ UNCHANGED <<storeVars, clockVars, trust_out, wlogs, llog, serviceVars>>

ListOutcomes == {"raises", "manager", "not_manager"}

\* no failure, a failure that calculate_trust re-raises, one that is swallowed
BanFailures ==
    {NoFailure, [call |-> "profile", kind |-> "ApiError"],
     [call |-> "reg_date", kind |-> "RuntimeError"]}

BanWorkers == {"w1"}

\* a banned user who holds the groups gs
InitBan ==
    /\ \E sig \in Signals, gs \in GroupLists :
          users = [u \in UserIds |->
                      IF u = 1 THEN [BannedUser(sig) EXCEPT !.groups = gs] ELSE NoUser]
    /\ history = [u \in UserIds |-> NoHistory]
    /\ cache = [g \in GroupIds |-> 0]
    /\ requests = NoRequests
    /\ tqueue = NoQueue
    /\ now = 0
    /\ today = 0
    /\ pc = [w \in Workers |-> "idle"]
    /\ arg = [w \in Workers |-> NoArg]
    /\ luser = [w \in Workers |-> NoUser]
    /\ target = [w \in Workers |-> 0]
    /\ result = [w \in Workers |-> NoResult]
    /\ wlogs = [l \in LogIds |-> NoLog]
    /\ llog = [w \in Workers |-> NoLog]
    /\ sweep = [w \in Workers |-> NoSweep]
    /\ trust_out = NoTrustOut

NextBan ==
    \/ \E w \in BanWorkers, u \in UserIds : BanStart(w, u)
    \/ \E w \in BanWorkers, sig \in Signals, ok \in BOOLEAN : BanTrust(w, sig, ok)
    \/ \E w \in BanWorkers : BanClear(w)
    \/ \E w \in BanWorkers, o \in ListOutcomes : BanList(w, o)
    \/ \E w \in BanWorkers, ok \in BOOLEAN : BanPlain(w, ok)
    \/ \E w \in BanWorkers, ok \in BOOLEAN : BanRevoke(w, ok)
    \/ \E w \in BanWorkers, ok \in BOOLEAN : BanAfterRevoke(w, ok)
    \/ \E w \in BanWorkers, u \in UserIds : AmnestyStart(w, u)
    \/ \E w \in BanWorkers : AmnestyUnban(w)
    \/ \E w \in BanWorkers, sig \in Signals, f \in BanFailures : AmnestyTrust(w, sig, f)
    \/ \E w \in BanWorkers, ok \in BOOLEAN : AmnestyUnbanGroup(w, ok)
    \/ \E w \in BanWorkers : Finish(w)

SpecBan == InitBan /\ [][NextBan]_vars

(* ------------- ban_user_in_groups next to give_editor ----------------- *)
GiveWorkers == {"w2"}

\* ban_user_in_groups is started for a user whose ban violation is stored
BanOfBanned(w, u) ==
    /\ has_active_violation(users[u])
    /\ BanStart(w, u)

\* the ban violation of a user and the sweep of worker w1 among the steps of
\* a give_editor call of worker w2
NextBanGrant ==
    \/ \E u \in UserIds : TealBan(u, 0, 1)
    \/ \E w \in BanWorkers, u \in UserIds : BanOfBanned(w, u)
    \/ \E w \in BanWorkers, sig \in Signals, ok \in BOOLEAN : BanTrust(w, sig, ok)
    \/ \E w \in BanWorkers : BanClear(w)
    \/ \E w \in BanWorkers, o \in ListOutcomes : BanList(w, o)
    \/ \E w \in BanWorkers, ok \in BOOLEAN : BanPlain(w, ok)
    \/ \E w \in BanWorkers, ok \in BOOLEAN : BanRevoke(w, ok)
    \/ \E w \in BanWorkers, ok \in BOOLEAN : BanAfterRevoke(w, ok)
    \/ \E w \in GiveWorkers, u \in UserIds : GiveStart(w, u)
    \/ \E w \in GiveWorkers : GiveCooldown(w)
    \/ \E w \in GiveWorkers : GiveIsWip(w)
    \/ \E w \in GiveWorkers : GiveHistory(w)
    \/ \E w \in GiveWorkers : GiveSetWip(w)
    \/ \E w \in GiveWorkers, ok \in BOOLEAN : GiveRefresh(w, 0, ok)
    \/ \E w \in GiveWorkers : GiveMember(w)
    \/ \E w \in GiveWorkers : GiveEdit(w)
    \/ \E w \in GiveWorkers : GiveGranted(w)
    \/ \E w \in GiveWorkers : GiveUpdate(w)
    \/ \E w \in GiveWorkers : GiveNonGranted(w)
    \/ \E w \in GiveWorkers : Finish(w)

SpecBanGrant == Init /\ [][NextBanGrant]_vars


(* ================= trust recomputation (TrustService) ================= *)
BaseSignal == Signal(FALSE, FALSE, NoDate)

\* registration dates: unknown, 10 days ago, and around the 180-day threshold
RegDates == {NoDate, -10, -179, -180}

\* nng_join_date values: unknown, 10 days ago and around every threshold
JoinDates == {NoDate, -10, -179, -180, -360, -361, -720, -721, -1440, -1441}

SignalFields ==
    {"closed_profile", "has_photo", "has_wall_posts", "has_friends", "verified",
     "joined_test_group", "joined_main_group", "odd_groups", "used_nng"}

\* nothing observed, each signal alone, and all of them together
SignalProfiles ==
    {[f \in SignalFields |-> FALSE], [f \in SignalFields |-> TRUE]}
    \cup {[f \in SignalFields |-> f = g] : g \in SignalFields}

SignalOf(p, regdate) ==
    [closed_profile |-> p["closed_profile"], has_photo |-> p["has_photo"],
     has_wall_posts |-> p["has_wall_posts"], has_friends |-> p["has_friends"],
     verified |-> p["verified"], joined_test_group |-> p["joined_test_group"],
     joined_main_group |-> p["joined_main_group"], odd_groups |-> p["odd_groups"],
     used_nng |-> p["used_nng"], registration_date |-> regdate]

\* every profile for an account of 180 days, every date for the empty profile
\* a deactivated profile of an account registered 10 days ago
DefaultSignal == SignalOf([f \in SignalFields |-> f = "closed_profile"], -10)

TrustSignals ==
    {SignalOf(p, -180) : p \in SignalProfiles}
    \cup {SignalOf([f \in SignalFields |-> FALSE], d) : d \in RegDates}
    \cup {DefaultSignal}

\* the signals observed by a recomputation one of whose calls fails
FailSignal == SignalOf([f \in SignalFields |-> TRUE], -180)

\* calculate_trust(user_id) runs: its external calls answer sig, or one fails as f
TrustCalculate(u, sig, f) ==
    /\ trust_out' = try_calculate_trust(users, u, sig, f, today)
    /\ UNCHANGED <<storeVars, clockVars, grantVars, wlogs, llog, sweep, serviceVars>>

\* update_user_trust_info(user_id, new_trust) after a calculate_trust that returned
TrustStore ==
    /\ ~trust_out.stored
    /\ users' = [users EXCEPT ![trust_out.user_id] =
                    update_user_trust_info(@, trust_out.info)]
    /\ trust_out' = [trust_out EXCEPT !.stored = TRUE]
    /\ UNCHANGED <<history, cache, clockVars, grantVars, wlogs, llog, sweep, serviceVars>>

\* services/user_service.update_user(user_id, activism = a, donate = d)
OperatorFlags(u, a, d) ==
    /\ users[u].exists
    /\ users' = [users EXCEPT ![u] =
                    [@ EXCEPT !.trust_info.activism = a, !.trust_info.donate = d]]
    /\ UNCHANGED <<history, cache, clockVars, grantVars, outsideGrant, serviceVars>>

\* the violation lists a user may have collected
ViolationLists ==
    { <<>>,
      <<Violation("banned", 1, "teal", 0, TRUE, 0, 1)>>,
      <<Violation("banned", 1, "teal", 0, FALSE, 0, 1)>>,
      <<Violation("warned", 1, "green", 0, FALSE, 1, 0)>>,
      <<Violation("warned", 1, "green", -ExpireDays, FALSE, 1, 0)>> }

PlainUser == [NewUser(BaseSignal) EXCEPT !.trust_info.nng_join_date = -10]

\* user 1: the plain user with one attribute changed, the saturated admin and
\* the banned newcomer
UserProfiles ==
    {[PlainUser EXCEPT !.trust_info.nng_join_date = j] : j \in JoinDates}
    \cup {[PlainUser EXCEPT !.violations = vs] : vs \in ViolationLists}
    \cup {[PlainUser EXCEPT !.invited_by = 2],
          [PlainUser EXCEPT !.admin = TRUE, !.trust_info.nng_join_date = -1441],
          [PlainUser EXCEPT !.admin = TRUE,
                            !.violations = <<Violation("banned", 1, "teal", 0, TRUE, 0, 1)>>]}

\* the state with user 1 as p; user 2, the referrer, exists or not
TrustState(p, ref) ==
    /\ users = [u \in UserIds |->
                   IF u = 1 THEN p ELSE IF ref THEN NewUser(FailSignal) ELSE NoUser]
    /\ history = [u \in UserIds |-> NoHistory]
    /\ cache = [g \in GroupIds |-> 0]
    /\ requests = NoRequests
    /\ tqueue = NoQueue
    /\ now = 0
    /\ today = 0
    /\ pc = [w \in Workers |-> "idle"]
    /\ arg = [w \in Workers |-> NoArg]
    /\ luser = [w \in Workers |-> NoUser]
    /\ target = [w \in Workers |-> 0]
    /\ result = [w \in Workers |-> NoResult]
    /\ wlogs = [l \in LogIds |-> NoLog]
    /\ llog = [w \in Workers |-> NoLog]
    /\ sweep = [w \in Workers |-> NoSweep]
    /\ trust_out = NoTrustOut

\* calculate_trust as a function of the user record and the signals
InitCalc == \E p \in UserProfiles, ref \in BOOLEAN : TrustState(p, ref)

NextCalc ==
    \E sig \in TrustSignals : TrustCalculate(1, sig, NoFailure)

SpecCalc == InitCalc /\ [][NextCalc]_vars

\* utils/users_utils.update_trust: calculate_trust, then the write of its result
UpdateTrustCall(u, sig, f) ==
    /\ trust_out.stored
    /\ TrustCalculate(u, sig, f)

\* recomputations of user 1, banned or not, while an operator edits the flags
InitTrust ==
    \E p \in {PlainUser,
              [PlainUser EXCEPT !.violations =
                                   <<Violation("banned", 1, "teal", 0, TRUE, 0, 1)>>]} :
        TrustState(p, FALSE)

NextTrust ==
    \/ \E sig \in TrustSignals : UpdateTrustCall(1, sig, NoFailure)
    \/ \E u \in UserIds, f \in Failures : UpdateTrustCall(u, FailSignal, f)
    \/ TrustStore
    \/ \E a \in BOOLEAN, d \in BOOLEAN : OperatorFlags(1, a, d)

SpecTrust == InitTrust /\ [][NextTrust]_vars


SweepWorkers == {"w1"}

(* ------------ WatchdogService.update_watchdog_log (service) ----------- *)
\* the coroutine has no await: get_log, the tests, check_and_throw_user and
\* upload_or_update_log run as one step of the event loop. The call and its
\* arguments are kept in target[w] and arg[w]; victim, date and reviewed are
\* not fields of the modelled record, of victim only its user check is kept
update_watchdog_log_overwrites(w, watchdog_id, intruder, group_id, victim) ==
    /\ pc[w] = "idle"
    /\ pc' = [pc EXCEPT ![w] = "done"]
    /\ target' = [target EXCEPT ![w] = watchdog_id]
    /\ arg' = [arg EXCEPT ![w] = [user_id |-> intruder, group_id |-> group_id]]
    /\ LET log == IF group_id # 0 THEN [wlogs[watchdog_id] EXCEPT !.group_id = group_id]
                  ELSE wlogs[watchdog_id]
           sets == intruder # 0
       IN IF ~wlogs[watchdog_id].exists
          THEN /\ result' = [result EXCEPT ![w] = Resp("WatchdogNotFoundError", watchdog_id)]
               /\ UNCHANGED wlogs
          ELSE IF sets /\ ~users[intruder].exists
          THEN /\ result' = [result EXCEPT ![w] = Resp("UserNotFoundError", intruder)]
               /\ UNCHANGED wlogs
          ELSE IF victim # 0 /\ ~users[victim].exists
          THEN /\ result' = [result EXCEPT ![w] = Resp("UserNotFoundError", victim)]
               /\ UNCHANGED wlogs
          ELSE /\ wlogs' = [wlogs EXCEPT ![watchdog_id] =
                               IF sets THEN [log EXCEPT !.intruder = intruder] ELSE log]
               /\ result' = [result EXCEPT ![w] =
                                Resp(IF sets THEN "needs_ban_task" ELSE "updated", watchdog_id)]
    /\ UNCHANGED <<storeVars, clockVars, trust_out, luser, llog, sweep, serviceVars>>

update_watchdog_log(w, watchdog_id, intruder, group_id, victim) ==
    /\ pc[w] = "idle"
    /\ pc' = [pc EXCEPT ![w] = "done"]
    /\ target' = [target EXCEPT ![w] = watchdog_id]
    /\ arg' = [arg EXCEPT ![w] = [user_id |-> intruder, group_id |-> group_id]]
    /\ LET log == IF group_id # 0 THEN [wlogs[watchdog_id] EXCEPT !.group_id = group_id]
                  ELSE wlogs[watchdog_id]
           sets == intruder # 0 /\ log.intruder = 0
       IN IF ~wlogs[watchdog_id].exists
          THEN /\ result' = [result EXCEPT ![w] = Resp("WatchdogNotFoundError", watchdog_id)]
               /\ UNCHANGED wlogs
          ELSE IF sets /\ ~users[intruder].exists
          THEN /\ result' = [result EXCEPT ![w] = Resp("UserNotFoundError", intruder)]
               /\ UNCHANGED wlogs
          ELSE IF victim # 0 /\ ~users[victim].exists
          THEN /\ result' = [result EXCEPT ![w] = Resp("UserNotFoundError", victim)]
               /\ UNCHANGED wlogs
          ELSE /\ wlogs' = [wlogs EXCEPT ![watchdog_id] =
                               IF sets THEN [log EXCEPT !.intruder = intruder] ELSE log]
               /\ result' = [result EXCEPT ![w] =
                                Resp(IF sets THEN "needs_ban_task" ELSE "updated", watchdog_id)]
    /\ UNCHANGED <<storeVars, clockVars, trust_out, luser, llog, sweep, serviceVars>>

\* the logs the store can hold before the calls: absent, or added by
\* PUT /watchdog/add with or without an intruder
StoredLog(l, intruder) ==
    [exists |-> TRUE, watchdog_id |-> l, intruder |-> intruder, group_id |-> 1,
     priority |-> "green", needs_ban_task |-> FALSE]

InitUpdate ==
    /\ \E second \in BOOLEAN :
          users = [u \in UserIds |-> IF u = 1 \/ second THEN NewUser(WatchSignal) ELSE NoUser]
    /\ history = [u \in UserIds |-> NoHistory]
    /\ cache = [g \in GroupIds |-> 0]
    /\ requests = NoRequests
    /\ tqueue = NoQueue
    /\ now = 0
    /\ today = 0
    /\ pc = [w \in Workers |-> "idle"]
    /\ arg = [w \in Workers |-> NoArg]
    /\ luser = [w \in Workers |-> NoUser]
    /\ target = [w \in Workers |-> 0]
    /\ result = [w \in Workers |-> NoResult]
    /\ wlogs \in [LogIds -> {NoLog} \cup {StoredLog(l, i) : l \in LogIds, i \in {0, 1}}]
    /\ \A l \in LogIds : wlogs[l].exists => wlogs[l].watchdog_id = l
    /\ llog = [w \in Workers |-> NoLog]
    /\ sweep = [w \in Workers |-> NoSweep]
    /\ trust_out = NoTrustOut

NextUpdate ==
    \/ \E w \in SweepWorkers, l \in LogIds, intruder \in {0} \cup UserIds,
          g \in {0} \cup WatchGroups, victim \in {0} \cup UserIds :
          update_watchdog_log(w, l, intruder, g, victim)
    \/ \E w \in SweepWorkers : Finish(w)

SpecUpdate == InitUpdate /\ [][NextUpdate]_vars

(* ------------- routers/requests.py change_request_status ------------- *)
\* get_comment_info_utility(comment_link): it raises, or it answers without
\* a group, or with the group of the comment
CommentInfos == {"raises", "no_group", "group"}

\* POST /requests/update/{request_id}: the coroutine has no await before its
\* broadcast, so get_request, upload_or_update_request, the scheduling of
\* amnesty_user and try_ban_user_as_teal are one step; stored = FALSE is the
\* NngPostgresException of add_violation that try_ban_user_as_teal captures
change_request_status(w, request_id, decision, answered, comment, stored) ==
    /\ pc[w] = "idle"
    /\ LET original == requests[request_id]
           request == [original EXCEPT !.decision = decision, !.answered = answered]
           a == [user_id |-> request.user_id, group_id |-> 0]
           amnesty == /\ request.request_type = "unblock"
                      /\ request.answered /\ request.decision
           teal == /\ request.request_type = "complaint"
                   /\ request.answered /\ request.vk_comment /\ request.decision
                   /\ request.intruder # 0 /\ ~original.answered
           adds == teal /\ comment # "raises" /\ stored /\ users[request.intruder].exists
       IN IF ~original.exists
          THEN /\ ReturnAt(w, Resp("request_not_found", request_id), NoArg)
               /\ UNCHANGED <<users, requests, sweep>>
          ELSE /\ requests' = [requests EXCEPT ![request_id] = request]
               /\ adds => Len(users[request.intruder].violations) < MaxViolations
               /\ users' = IF adds
                           THEN [users EXCEPT ![request.intruder] =
                                   add_violation(@, Violation("banned",
                                       IF comment = "group" THEN 1 ELSE 0,
                                       "teal", today, TRUE, 0, request_id))]
                           ELSE users
               /\ IF teal /\ comment = "raises"
                  THEN ReturnAt(w, Resp("raised", request_id), a) /\ UNCHANGED sweep
                  ELSE IF amnesty /\ users[request.user_id].exists
                  THEN /\ pc' = [pc EXCEPT ![w] = "a_unban"]
                       /\ arg' = [arg EXCEPT ![w] = a]
                       /\ sweep' = [sweep EXCEPT ![w] =
                                       [NoSweep EXCEPT !.before = users[request.user_id]]]
                       /\ UNCHANGED <<luser, target, result>>
                  ELSE /\ ReturnAt(w, Resp("status_changed", request_id), a)
                       /\ UNCHANGED sweep
    /\ UNCHANGED <<history, cache, clockVars, trust_out, wlogs, llog, tqueue>>

\* the requests in the store before the calls: a complaint of user 2 about
\* user 1 or about nobody, with or without a comment link, or the unblock
\* request of user 1
StoredRequests ==
    {[NoRequest EXCEPT !.exists = TRUE, !.user_id = 2, !.intruder = i, !.vk_comment = c] :
        i \in {0, 1}, c \in BOOLEAN}
    \cup {[NoRequest EXCEPT !.exists = TRUE, !.request_type = "unblock", !.user_id = 1]}

InitRequest ==
    /\ \E banned \in BOOLEAN :
          users = [u \in UserIds |->
                      IF u = 1 /\ banned
                      THEN add_violation(NewUser(WatchSignal), RedBan(0, TRUE))
                      ELSE NewUser(WatchSignal)]
    /\ history = [u \in UserIds |-> NoHistory]
    /\ cache = [g \in GroupIds |-> 0]
    /\ \E r \in StoredRequests : requests = [NoRequests EXCEPT ![1] = r]
    /\ tqueue = NoQueue
    /\ now = 0
    /\ today = 0
    /\ pc = [w \in Workers |-> "idle"]
    /\ arg = [w \in Workers |-> NoArg]
    /\ luser = [w \in Workers |-> NoUser]
    /\ target = [w \in Workers |-> 0]
    /\ result = [w \in Workers |-> NoResult]
    /\ wlogs = [l \in LogIds |-> NoLog]
    /\ llog = [w \in Workers |-> NoLog]
    /\ sweep = [w \in Workers |-> NoSweep]
    /\ trust_out = NoTrustOut

NextRequest ==
    \/ \E w \in BanWorkers, r \in RequestIds, decision \in BOOLEAN, answered \in BOOLEAN,
          comment \in CommentInfos, stored \in BOOLEAN :
          change_request_status(w, r, decision, answered, comment, stored)
    \/ \E w \in BanWorkers : AmnestyUnban(w)
    \/ \E w \in BanWorkers, sig \in Signals, f \in BanFailures : AmnestyTrust(w, sig, f)
    \/ \E w \in BanWorkers, ok \in BOOLEAN : AmnestyUnbanGroup(w, ok)
    \/ \E w \in BanWorkers : Finish(w)

SpecRequest == InitRequest /\ [][NextRequest]_vars

(* --------------------- services/queue_service.py ---------------------- *)
\* TaskPriority.NORMAL and TaskPriority.HIGH
TaskPriorityValues == {5, 10}

\* the max_retries a caller passes: none, or the largest of the model
RetryLimits == {0, MaxTaskRetries}

QueueWorkers == {"w1"}

\* no process_queue call is in progress: the calls come one after another
QueueIdle == \A w \in QueueWorkers : pc[w] = "idle"

\* TaskQueue.enqueue: _generate_task_id, QueuedTask(priority = -priority.value),
\* heappush, _tasks[task_id] = task
enqueue(priority, max_retries) ==
    /\ QueueIdle
    /\ LET task_id == Cardinality({t \in TaskIds : tqueue.tasks[t].exists}) + 1
       IN /\ task_id \in TaskIds
          /\ tqueue' = [tqueue EXCEPT !.tasks[task_id] =
                           [exists |-> TRUE, priority |-> -priority, status |-> "pending",
                            retries |-> 0, max_retries |-> max_retries,
                            queued |-> TRUE, runs |-> 0]]
    /\ UNCHANGED <<storeVars, clockVars, grantVars, outsideGrant, requests>>

\* TaskQueue.cancel_task: True and CANCELLED for a pending task, else False
cancel_task(task_id) ==
    /\ QueueIdle
    /\ tqueue' = IF tqueue.tasks[task_id].exists /\ tqueue.tasks[task_id].status = "pending"
                 THEN [tqueue EXCEPT !.tasks[task_id].status = "cancelled"]
                 ELSE tqueue
    /\ UNCHANGED <<storeVars, clockVars, grantVars, outsideGrant, requests>>

\* process_queue(queue_name, max_tasks) up to its loop; max_tasks = 0 is None
process_queue(w, max_tasks) ==
    /\ pc[w] = "idle"
    /\ pc' = [pc EXCEPT ![w] = "q_dequeue"]
    /\ tqueue' = [tqueue EXCEPT !.max_tasks = max_tasks, !.processed = 0, !.results = {}]
    /\ UNCHANGED <<storeVars, clockVars, arg, luser, target, result, outsideGrant, requests>>

Queued == {t \in TaskIds : tqueue.tasks[t].exists /\ tqueue.tasks[t].queued}

\* the heap pops every task it holds with a smaller key before the task first
LeavesHeapBefore(first) ==
    {t \in Queued : tqueue.tasks[t].priority < tqueue.tasks[first].priority}

\* the tasks heappop may return before first: the same key, in heap order
TiesOf(first, candidates) ==
    {t \in candidates \ {first} : tqueue.tasks[t].priority = tqueue.tasks[first].priority}

Unqueue(popped) ==
    [t \in TaskIds |-> IF t \in popped THEN [tqueue.tasks[t] EXCEPT !.queued = FALSE]
                       ELSE tqueue.tasks[t]]

\* dequeue that returns the first task of the heap whatever its status
dequeue_any_status(w, first, ties) ==
    /\ pc[w] = "q_dequeue"
    /\ IF Queued = {}
       THEN /\ first = 0 /\ ties = {}
            /\ tqueue' = [NoQueue EXCEPT !.tasks = tqueue.tasks]
            /\ pc' = [pc EXCEPT ![w] = "idle"]
            /\ target' = [target EXCEPT ![w] = 0]
       ELSE /\ first \in Queued /\ ties = {}
            /\ LeavesHeapBefore(first) = {}
            /\ tqueue' = [tqueue EXCEPT !.tasks = Unqueue({first})]
            /\ pc' = [pc EXCEPT ![w] = "q_run"]
            /\ target' = [target EXCEPT ![w] = first]
    /\ UNCHANGED <<storeVars, clockVars, arg, luser, result, outsideGrant, requests>>

\* TaskQueue.dequeue inside the loop of process_queue: heappop until a task is
\* PENDING; first is the task returned (0 = None, and the loop breaks), ties
\* are the tasks of the same key that the heap held before it
dequeue(w, first, ties) ==
    /\ pc[w] = "q_dequeue"
    /\ LET pending == {t \in Queued : tqueue.tasks[t].status = "pending"}
       IN IF pending = {}
          THEN /\ first = 0 /\ ties = {}
               /\ tqueue' = [NoQueue EXCEPT !.tasks = Unqueue(Queued)]
               /\ pc' = [pc EXCEPT ![w] = "idle"]
               /\ target' = [target EXCEPT ![w] = 0]
          ELSE /\ first \in pending
               /\ LeavesHeapBefore(first) \cap pending = {}
               /\ ties \subseteq TiesOf(first, Queued \ pending)
               /\ tqueue' = [tqueue EXCEPT !.tasks =
                                Unqueue(LeavesHeapBefore(first) \cup ties \cup {first})]
               /\ pc' = [pc EXCEPT ![w] = "q_run"]
               /\ target' = [target EXCEPT ![w] = first]
    /\ UNCHANGED <<storeVars, clockVars, arg, luser, result, outsideGrant, requests>>

\* process_task and the rest of the loop body: RUNNING, the call of task.func
\* (ok = FALSE: it raises), COMPLETED, or retries += 1 and PENDING with a
\* heappush or FAILED; results.append, processed += 1 and the max_tasks test
process_task(w, ok) ==
    /\ pc[w] = "q_run"
    /\ LET task == tqueue.tasks[target[w]]
           ran == [task EXCEPT !.runs = @ + 1]
           after == IF ok THEN [ran EXCEPT !.status = "completed"]
                    ELSE IF task.retries + 1 < task.max_retries
                    THEN [ran EXCEPT !.retries = @ + 1, !.status = "pending",
                                     !.queued = TRUE]
                    ELSE [ran EXCEPT !.retries = @ + 1, !.status = "failed"]
           processed == tqueue.processed + 1
           returns == tqueue.max_tasks # 0 /\ processed >= tqueue.max_tasks
       IN /\ tqueue' = IF returns
                       THEN [NoQueue EXCEPT !.tasks = [tqueue.tasks EXCEPT ![target[w]] = after]]
                       ELSE [tqueue EXCEPT !.tasks[target[w]] = after,
                                           !.results = @ \cup {target[w]},
                                           !.processed = IF tqueue.max_tasks = 0 THEN @
                                                         ELSE processed]
          /\ pc' = [pc EXCEPT ![w] = IF returns THEN "idle" ELSE "q_dequeue"]
    /\ target' = [target EXCEPT ![w] = 0]
    /\ UNCHANGED <<storeVars, clockVars, arg, luser, result, outsideGrant, requests>>

\* one turn of the loop of process_queue
QueueStep ==
    \/ \E w \in QueueWorkers, first \in {0} \cup TaskIds, ties \in SUBSET TaskIds :
          dequeue(w, first, ties)
    \/ \E w \in QueueWorkers, ok \in BOOLEAN : process_task(w, ok)

NextQueue ==
    \/ \E priority \in TaskPriorityValues, max_retries \in RetryLimits :
          enqueue(priority, max_retries)
    \/ \E task_id \in TaskIds : cancel_task(task_id)
    \/ \E w \in QueueWorkers, max_tasks \in {0, 1} : process_queue(w, max_tasks)
    \/ QueueStep

\* the event loop runs a process_queue coroutine that is ready until it returns
SpecQueue == InitWatch /\ [][NextQueue]_vars /\ WF_vars(QueueStep)

(* -------------------- services/invite_service.py ---------------------- *)
allowed_to_invite(trust) == trust > 30

\* utils/invite_crypt.py: the first characters of md5(user_id + salt), here a
\* digest of one digit
invite_hash(user_id) == (user_id * 7 + 3) % 10

generate_invite_for_user(user_id) == [user_id |-> user_id, hash |-> invite_hash(user_id)]

\* the user id of the invite when its digest matches, else None (0)
check_invite(invite) ==
    IF invite.hash = invite_hash(invite.user_id) THEN invite.user_id ELSE 0

\* the codes of users 1 and 2, of an id the store does not know, of id 0, and
\* a code that names user 1 with the digest of user 2
InviteStrings ==
    {generate_invite_for_user(u) : u \in 0..3}
        \cup {[user_id |-> 1, hash |-> invite_hash(2)]}

\* get_user answers for the ids of the store only
Stored(user_id) == user_id \in UserIds /\ users[user_id].exists

check_user(user_id) == Stored(user_id) /\ ~has_active_violation(users[user_id])

InviteReturn(w, user_id, response_type, referral_id) ==
    ReturnAt(w, Resp(response_type, referral_id), [user_id |-> user_id, group_id |-> 0])

\* use_invite with the test of referral.invited_by left out
use_invite_no_mutual_check(w, invite_string, user_id) ==
    /\ pc[w] = "idle"
    /\ LET referral_id == check_invite(invite_string)
       IN IF referral_id = 0 \/ ~check_user(referral_id)
          THEN UNCHANGED users /\ InviteReturn(w, user_id, "invalid_or_banned_referral", 0)
          ELSE IF ~Stored(user_id)
          THEN UNCHANGED users /\ InviteReturn(w, user_id, "invalid_user", 0)
          ELSE IF user_id = referral_id
          THEN UNCHANGED users
               /\ InviteReturn(w, user_id, "cannot_invite_yourself", referral_id)
          ELSE IF has_active_violation(users[user_id])
          THEN UNCHANGED users /\ InviteReturn(w, user_id, "banned_user", referral_id)
          ELSE IF users[user_id].invited_by # 0
          THEN UNCHANGED users
               /\ InviteReturn(w, user_id, "user_already_invited", referral_id)
          ELSE IF ~allowed_to_invite(users[user_id].trust_info.trust)
          THEN UNCHANGED users /\ InviteReturn(w, user_id, "too_low_trust", referral_id)
          ELSE IF ~allowed_to_invite(users[referral_id].trust_info.trust)
          THEN UNCHANGED users
               /\ InviteReturn(w, user_id, "too_low_trust_referral", referral_id)
          ELSE /\ users' = [users EXCEPT ![user_id].invited_by = referral_id]
               /\ InviteReturn(w, user_id, "success", referral_id)
    /\ UNCHANGED <<history, cache, clockVars, outsideGrant, serviceVars>>

\* the coroutine has no await: the checks and update_user are one step
use_invite(w, invite_string, user_id) ==
    /\ pc[w] = "idle"
    /\ LET referral_id == check_invite(invite_string)
       IN IF referral_id = 0 \/ ~check_user(referral_id)
          THEN UNCHANGED users /\ InviteReturn(w, user_id, "invalid_or_banned_referral", 0)
          ELSE IF ~Stored(user_id)
          THEN UNCHANGED users /\ InviteReturn(w, user_id, "invalid_user", 0)
          ELSE IF user_id = referral_id
          THEN UNCHANGED users
               /\ InviteReturn(w, user_id, "cannot_invite_yourself", referral_id)
          ELSE IF has_active_violation(users[user_id])
          THEN UNCHANGED users /\ InviteReturn(w, user_id, "banned_user", referral_id)
          ELSE IF users[user_id].invited_by # 0
          THEN UNCHANGED users
               /\ InviteReturn(w, user_id, "user_already_invited", referral_id)
          ELSE IF users[referral_id].invited_by = user_id
          THEN UNCHANGED users
               /\ InviteReturn(w, user_id, "user_is_invited_by_you", referral_id)
          ELSE IF ~allowed_to_invite(users[user_id].trust_info.trust)
          THEN UNCHANGED users /\ InviteReturn(w, user_id, "too_low_trust", referral_id)
          ELSE IF ~allowed_to_invite(users[referral_id].trust_info.trust)
          THEN UNCHANGED users
               /\ InviteReturn(w, user_id, "too_low_trust_referral", referral_id)
          ELSE /\ users' = [users EXCEPT ![user_id].invited_by = referral_id]
               /\ InviteReturn(w, user_id, "success", referral_id)
    /\ UNCHANGED <<history, cache, clockVars, outsideGrant, serviceVars>>

\* the users before the calls: trust on either side of the invite threshold,
\* with or without an active ban, the second user possibly not stored
InviteUsers ==
    {NoUser} \cup
    {IF banned THEN add_violation(user, RedBan(0, TRUE)) ELSE user :
        banned \in BOOLEAN,
        user \in {[NewUser(WatchSignal) EXCEPT !.trust_info.trust = t] : t \in {23, 40}}}

InitInvite ==
    /\ users \in [UserIds -> InviteUsers]
    /\ users[1].exists
    /\ history = [u \in UserIds |-> NoHistory]
    /\ cache = [g \in GroupIds |-> 0]
    /\ requests = NoRequests
    /\ tqueue = NoQueue
    /\ now = 0
    /\ today = 0
    /\ pc = [w \in Workers |-> "idle"]
    /\ arg = [w \in Workers |-> NoArg]
    /\ luser = [w \in Workers |-> NoUser]
    /\ target = [w \in Workers |-> 0]
    /\ result = [w \in Workers |-> NoResult]
    /\ wlogs = [l \in LogIds |-> NoLog]
    /\ llog = [w \in Workers |-> NoLog]
    /\ sweep = [w \in Workers |-> NoSweep]
    /\ trust_out = NoTrustOut

NextInvite ==
    \/ \E w \in SweepWorkers, invite_string \in InviteStrings, user_id \in 1..3 :
          use_invite(w, invite_string, user_id)
    \/ \E w \in SweepWorkers : Finish(w)

SpecInvite == InitInvite /\ [][NextInvite]_vars

(* ------------- utils/trust_restrictions.py over every trust ----------- *)
\* the trust values calculate_trust can store
TrustValues == 0..100

\* a caller evaluates the trust guard and the group limit for one trust value
Restriction(w, trust) ==
    /\ pc[w] = "idle"
    /\ pc' = [pc EXCEPT ![w] = "done"]
    /\ target' = [target EXCEPT ![w] = trust]
    /\ result' = [result EXCEPT ![w] =
                     Resp(IF allowed_to_receive_editor(trust) THEN "allowed" ELSE "denied",
                          get_groups_restriction(trust))]
    /\ UNCHANGED <<storeVars, clockVars, arg, luser, outsideGrant, serviceVars>>

NextRestrict ==
    \/ \E w \in SweepWorkers, trust \in TrustValues : Restriction(w, trust)
    \/ \E w \in SweepWorkers : Finish(w)

SpecRestrict == InitWatch /\ [][NextRestrict]_vars

(* ============== background_tasks/trust_updater.py ===================== *)
\* what get_users_with_outdated_trust can return: existing users, each once
OutdatedLists == {<<>>, <<1>>, <<2>>, <<1, 2>>, <<2, 1>>}

\* update_all_trust_factors starts, or wait_for_next_update is over on the next
\* day: iterate() fetches the users with outdated trust
SweepIterate(w, list) ==
    /\ pc[w] \in {"idle", "s_sleep"}
    /\ IF pc[w] = "s_sleep"
       THEN today < MaxDay /\ today' = today + 1
       ELSE today' = today
    /\ \A i \in 1..Len(list) : users[list[i]].exists
    /\ sweep' = [sweep EXCEPT ![w] =
                    [NoSweep EXCEPT !.idx = 1, !.outdated = list]]
    /\ pc' = [pc EXCEPT ![w] = IF list = <<>> THEN "s_sleep" ELSE "s_user"]
    /\ UNCHANGED <<storeVars, now, arg, luser, target, result, trust_out, wlogs, llog, serviceVars>>

\* the body of the for loop for one user: calculate_trust over the signals
\* sig while the collection call f fails, and update_user_trust_info; an
\* exception of calculate_trust leaves iterate() and the while loop
SweepUser(w, sig, f) ==
    /\ pc[w] = "s_user"
    /\ LET u == sweep[w].outdated[sweep[w].idx]
           out == try_calculate_trust(users, u, sig, f, today)
       IN IF out.raised
          THEN /\ UNCHANGED <<users, sweep>>
               /\ Return(w, Resp("sweep_raised", u))
          ELSE /\ users' = [users EXCEPT ![u] = update_user_trust_info(@, out.info)]
               /\ sweep' = [sweep EXCEPT ![w].idx = @ + 1,
                                         ![w].attempted = @ \cup {u}]
               /\ Goto(w, IF sweep[w].idx = Len(sweep[w].outdated)
                          THEN "s_sleep" ELSE "s_user")
               /\ UNCHANGED target
    /\ UNCHANGED <<history, cache, clockVars, trust_out, wlogs, llog, serviceVars>>

\* two registered users and the sweep thread
InitSweep ==
    /\ \E sig \in Signals : users = [u \in UserIds |-> NewUser(sig)]
    /\ history = [u \in UserIds |-> NoHistory]
    /\ cache = [g \in GroupIds |-> 0]
    /\ requests = NoRequests
    /\ tqueue = NoQueue
    /\ now = 0
    /\ today = 0
    /\ pc = [w \in Workers |-> "idle"]
    /\ arg = [w \in Workers |-> NoArg]
    /\ luser = [w \in Workers |-> NoUser]
    /\ target = [w \in Workers |-> 0]
    /\ result = [w \in Workers |-> NoResult]
    /\ wlogs = [l \in LogIds |-> NoLog]
    /\ llog = [w \in Workers |-> NoLog]
    /\ sweep = [w \in Workers |-> NoSweep]
    /\ trust_out = NoTrustOut

NextSweep ==
    \/ \E w \in SweepWorkers, list \in OutdatedLists : SweepIterate(w, list)
    \/ \E w \in SweepWorkers, sig \in Signals, f \in BanFailures : SweepUser(w, sig, f)

SpecSweep == InitSweep /\ [][NextSweep]_vars


(* ============================ grant claims ============================ *)
\* a call is in flight after its set_wip write and before its final history write
AfterSetWip ==
    {"g_refresh", "g_member", "g_edit", "g_granted", "g_nongranted",
     "f_member", "f_clearwip", "f_edit", "f_granted", "f_nongranted"}

\* a give_editor call that went past the is_wip check and has not returned yet
PastWipCheck ==
    {"g_history", "g_setwip", "g_refresh", "g_member", "g_edit", "g_granted",
     "g_update", "g_nongranted"}

InFlightCalls(u) == {w \in Workers : pc[w] \in AfterSetWip /\ arg[w].user_id = u}

\* C1: at most one grant attempt per user is in flight at any time: the history
\* never holds more than one wip item, and no two calls for the same user are
\* both between their set_wip write and their final history write.
C1_AtMostOneInFlight ==
    \A u \in UserIds :
        /\ Len(WipItems(history[u])) <= 1
        /\ Cardinality(InFlightCalls(u)) <= 1

\* C2: of two concurrent requestGrant calls for the same user, only one is ever
\* past the WIP check; the other returns Fail(in-progress).
C2_ExactlyOnePastWipCheck ==
    \A w1, w2 \in Workers :
        (w1 # w2 /\ pc[w1] \in PastWipCheck /\ pc[w2] \in PastWipCheck)
            => arg[w1].user_id # arg[w2].user_id

\* C5: requestGrant records no grant while the user has a granted item younger
\* than 4h; at the cooldown check such an item yields Cooldown without any state
\* change, and without such an item the check lets the call through.
C5_CooldownLaw ==
    [][\A w \in Workers :
          /\ (pc[w] = "g_granted" /\ pc'[w] = "g_update")
                => ~user_on_cooldown(history[arg[w].user_id], now)
          /\ (pc[w] = "g_cooldown" /\ pc'[w] # "g_cooldown")
                => IF user_on_cooldown(history[arg[w].user_id], now)
                   THEN result'[w].status = "cooldown" /\ UNCHANGED storeVars
                   ELSE pc'[w] = "g_iswip"]_vars

GiveStatuses ==
    {"success", "join_group", "cooldown", "fail_not_found", "fail_banned",
     "fail_low_trust", "fail_limit", "fail_wip", "fail_no_group"}

FulfilStatuses ==
    {"f_noop", "f_cleared", "f_left", "f_granted", "f_failed", "f_captured"}

\* C6: every requestGrant call returns one of Success, JoinGroup, Cooldown or
\* Fail(reason) and never raises.
C6_ClosedOutcomes ==
    \A w \in Workers :
        pc[w] = "done" => result[w].status \in GiveStatuses \cup FulfilStatuses

(* ============================ limit claims ============================ *)
\* limit(trust) as the workflow's contract states it
limit(trust) ==
    CASE trust <= 10 -> 0
      [] trust > 10 /\ trust <= 20 -> 1
      [] trust > 20 /\ trust <= 30 -> 3
      [] trust > 30 /\ trust <= 40 -> 5
      [] trust > 40 /\ trust <= 50 -> 10
      [] trust > 50 /\ trust <= 60 -> 15
      [] trust > 60 /\ trust <= 70 -> 20
      [] trust > 70 /\ trust <= 80 -> 25
      [] OTHER -> 30

WithinLimit(user) == Len(user.groups) <= limit(user.trust_info.trust)

\* worker w returns Success in this step
ReturnsSuccess(w) == pc[w] = "g_update" /\ pc'[w] = "done"

\* worker w starts give_editor in this step for an existing user that is at or
\* over the limit
StartsLimited(w) ==
    /\ pc[w] = "idle" /\ pc'[w] # "idle"
    /\ arg'[w].group_id = 0
    /\ users[arg'[w].user_id].exists
    /\ Len(users[arg'[w].user_id].groups) >= limit(users[arg'[w].user_id].trust_info.trust)

\* C3 as claimed: a Success leaves at most limit(trust) groups stored, and a user
\* with len(groups) >= limit(trust) receives Fail(limit-reached).
C3_GroupLimitLaw ==
    [][\A w \in Workers :
          /\ ReturnsSuccess(w) => WithinLimit(users'[arg[w].user_id])
          /\ StartsLimited(w) => result'[w].status = "fail_limit"]_vars

\* C3 amended: a Success leaves at most limit(trust) groups stored, and a user
\* with len(groups) >= limit(trust) receives a Fail: the one of the first guard
\* that rejects (banned, low trust), limit-reached when both of those pass.
C3_GroupLimitGuard ==
    [][\A w \in Workers :
          /\ ReturnsSuccess(w) => WithinLimit(users'[arg[w].user_id])
          /\ StartsLimited(w) =>
                LET user == users[arg'[w].user_id]
                IN /\ pc'[w] = "done"
                   /\ result'[w].status =
                         IF has_active_violation(user) THEN "fail_banned"
                         ELSE IF user.trust_info.trust <= 10 THEN "fail_low_trust"
                         ELSE "fail_limit"]_vars

\* a user who was granted editor before is now refused for the limit
C3_Witness ==
    \E w \in Workers :
        /\ pc[w] = "done" /\ result[w].status = "fail_limit"
        /\ \E i \in 1..Len(history[arg[w].user_id].history) :
              history[arg[w].user_id].history[i].granted

\* C4 as claimed: in every reachable state len(groups) <= limit(trust).
C4_GroupsWithinLimit ==
    \A u \in UserIds : users[u].exists => WithinLimit(users[u])

\* C4 amended: every step of requestGrant preserves len(groups) <= limit(trust);
\* the callbacks, restore_user, update_user and trust recomputation do not.
C4_GrantPreservesLimit ==
    [][\A u \in UserIds :
          (grantVars' # grantVars /\ users[u].exists /\ WithinLimit(users[u]))
              => WithinLimit(users'[u])]_vars

\* a grant has just filled the user's list up to the limit
C4_Witness ==
    \E w \in Workers :
        /\ pc[w] = "done" /\ result[w].status = "success"
        /\ users[arg[w].user_id].trust_info.trust > 10
        /\ Len(users[arg[w].user_id].groups) = limit(users[arg[w].user_id].trust_info.trust)


(* ====================== violation escalation claims ==================== *)
GreenViolations(u) ==
    FilterSeq(users[u].violations,
              {v \in Range(users[u].violations) : v.priority = "green"})

ViolationsOfLog(u, l) ==
    {i \in 1..Len(users[u].violations) : users[u].violations[i].watchdog_ref = l}

ActiveBans(u) ==
    {i \in 1..Len(users[u].violations) :
        users[u].violations[i].type = "banned" /\ users[u].violations[i].active}

NoTaskRunning == \A w \in Workers : pc[w] = "idle"

\* C7 (as stated): once the two green reports of a user without earlier green
\* warnings are handled, the user's green violations are one warning followed
\* by one active ban
C7_WarningThenBan ==
    \A u \in UserIds :
        LET gv == GreenViolations(u)
        IN (NoTaskRunning /\ Len(gv) = 2)
           => /\ gv[1].type = "warned"
              /\ gv[2].type = "banned" /\ gv[2].active

\* C7 (amended): the first two green violations of a user are warnings, and a
\* green ban stands only after two green warnings that had not expired on the
\* day of the ban
C7_TwoWarningsThenBan ==
    \A u \in UserIds :
        LET gv == GreenViolations(u)
        IN \A i \in 1..Len(gv) :
              /\ i <= 2 => (gv[i].type = "warned" /\ ~gv[i].active)
              /\ gv[i].type = "banned"
                    => Cardinality({j \in 1..(i - 1) :
                                       /\ gv[j].type = "warned"
                                       /\ gv[i].date - gv[j].date < ExpireDays}) >= 2

\* two green reports about user 1 were handled and left two warnings
C7_Witness ==
    /\ NoTaskRunning
    /\ Cardinality({l \in LogIds : /\ wlogs[l].exists /\ wlogs[l].priority = "green"
                                   /\ wlogs[l].intruder = 1}) = 2
    /\ Len(GreenViolations(1)) = 2
    /\ \A i \in 1..2 : GreenViolations(1)[i].type = "warned"
    /\ ViolationsOfLog(1, 1) # {} /\ ViolationsOfLog(1, 2) # {}

\* C8: at most one violation refers to any one watchdog log, whatever the
\* interleaving of the updates that supply its intruder
C8_OneViolationPerLog ==
    \A u \in UserIds, l \in LogIds : Cardinality(ViolationsOfLog(u, l)) <= 1

\* C9 (as stated): a user never has more than one active banned violation
C9_AtMostOneActiveBan ==
    \A u \in UserIds : Cardinality(ActiveBans(u)) <= 1

ActiveFor(violations, g, day) ==
    {i \in 1..Len(violations) :
        violations[i].group_id = g /\ violations[i].active /\ violations[i].date = day}

\* C9 (amended): a non-green escalation goes on to append its ban only when
\* the user record it read holds no active violation of the log's group dated
\* today; nothing else limits the number of active bans
C9_NonGreenDedup ==
    \A w \in Workers :
        pc[w] = "t_add"
            => ActiveFor(luser[w].violations, llog[w].group_id, today) = {}

\* a non-green report about user 1 was dropped because an active violation of
\* its group dated today stood in the record, and a second one is about to ban
C9_Witness ==
    /\ \E l \in LogIds :
          /\ wlogs[l].exists /\ wlogs[l].priority # "green" /\ wlogs[l].intruder = 1
          /\ ViolationsOfLog(1, l) = {}
          /\ ActiveFor(users[1].violations, wlogs[l].group_id, today) # {}
    /\ NoTaskRunning


(* ============================ ban sweep claims ========================= *)
BanEnded(w) == pc[w] = "done" /\ result[w].status \in {"ban_finished", "ban_raised"}

\* C10: when a ban(user) that reached its sweep ends, every managed group was
\* attempted, whichever external calls of a group failed, and the user's
\* stored groups list is empty
C10_SweepCoversAllGroups ==
    \A w \in Workers :
        (BanEnded(w) /\ sweep[w].idx >= 1)
            => /\ sweep[w].attempted = GroupIds
               /\ users[arg[w].user_id].groups = <<>>


(* ============================ trust claims ============================ *)
Returned == ~trust_out.raised /\ trust_out.user_id # 0

\* C13: a calculate_trust call leaves every user record as it was and returns
\* a trust between 0 and 100, whatever the sum of the terms is
C13_CalculateInRange ==
    [][/\ users' = users
       /\ (~trust_out'.raised /\ trust_out'.user_id # 0)
             => trust_out'.info.trust \in 0..100]_vars

\* the terms of an administrator with a long tenure add up to more than 100
C13_Witness ==
    /\ Returned
    /\ users[1].admin /\ users[1].trust_info.nng_join_date = -1441
    /\ trust_out.info.trust = 100

\* the age in days of a date; a missing date counts as today
Age(date, day) == IF date = NoDate THEN 0 ELSE day - date

Term(cond, points) == IF cond THEN points ELSE 0

Clamp(x) == IF x < 0 THEN 0 ELSE IF x > 100 THEN 100 ELSE x

\* the formula of the trust engine for user u over the observed signals sig
TrustFormula(u, sig, day) ==
    LET user == users[u]
        vs == user.violations
        ref == user.invited_by
        tenure == Age(user.trust_info.nng_join_date, day)
        invite == IF ref # 0 /\ users[ref].exists
                  THEN (users[ref].trust_info.trust * 5) \div 100 ELSE 0
        reg_age == Term(Age(sig.registration_date, day) < 180, -10)
        join_age == IF tenure < 180 THEN 0
                    ELSE IF tenure <= 360 THEN 5
                    ELSE IF tenure <= 720 THEN 15
                    ELSE IF tenure <= 1440 THEN 20
                    ELSE 25
        profile == Term(sig.closed_profile, -7) + Term(sig.has_photo, 3)
                   + Term(sig.has_wall_posts, 3) + Term(sig.has_friends, 3)
                   + Term(sig.verified \/ user.trust_info.verified, 25)
        behaviour == Term(sig.odd_groups, -15) + Term(sig.joined_test_group, 10)
                     + Term(sig.joined_main_group, 3)
                     + Term(user.trust_info.activism, 40)
                     + Term(user.trust_info.donate, 10)
        violation == Term(\E i \in 1..Len(vs) : vs[i].type = "banned" /\ vs[i].active, -100)
                     + Term(\E i \in 1..Len(vs) : vs[i].type = "banned", -5)
                     + Term(\E i \in 1..Len(vs) : vs[i].type = "warned"
                                                 /\ day - vs[i].date < ExpireDays, -10)
                     + Term(\E i \in 1..Len(vs) : vs[i].type = "warned", -5)
    IN Clamp(20 + invite + reg_age + join_age + profile + behaviour + violation
             + Term(user.admin, 100) + Term(sig.used_nng, 3))

\* C14: calculate returns the clamped sum of the base 20 and the terms of the
\* formula; the all-default user of 10 days gets trust 3
C14_TrustFormula ==
    Returned
        => /\ trust_out.info.trust = TrustFormula(trust_out.user_id, trust_out.sig,
                                                  trust_out.day)
           /\ (users[1] = PlainUser /\ trust_out.sig = DefaultSignal)
                 => trust_out.info.trust = 3

\* the all-default user of 10 days was scored
C14_Witness ==
    /\ Returned
    /\ users[1] = PlainUser /\ trust_out.sig = DefaultSignal
    /\ trust_out.info.trust = 3

\* a step of update_user: the recomputation in flight is left alone
OperatorStep == trust_out' = trust_out

\* a step in which calculate_trust returns a TrustInfo for user u
CalculateReturns(u) ==
    /\ trust_out' # trust_out
    /\ trust_out'.user_id = u /\ ~trust_out'.raised /\ ~trust_out'.stored

\* C15: a stored verified or donate flag that is true is true in the TrustInfo
\* of every later recomputation and stays true in the store, unless the
\* operator changes it
C15_FlagsSticky ==
    [][\A u \in UserIds :
          users[u].exists =>
             /\ (users[u].trust_info.verified /\ CalculateReturns(u))
                   => trust_out'.info.verified
             /\ (users[u].trust_info.donate /\ CalculateReturns(u))
                   => trust_out'.info.donate
             /\ (users[u].trust_info.verified /\ ~OperatorStep)
                   => users'[u].trust_info.verified
             /\ (users[u].trust_info.donate /\ ~OperatorStep)
                   => users'[u].trust_info.donate]_vars

\* a step of calculate_trust or of the store that follows it, after the
\* collection call trust_out'.failure.call failed for an existing user
AfterFailedCall ==
    /\ trust_out' # trust_out
    /\ trust_out'.failure.call # "none"
    /\ users[trust_out'.user_id].exists

\* C16 as stated: whichever collection call fails, the recomputation aborts
\* and the user records stay as they were
C16_AnyFailureAborts ==
    [][AfterFailedCall => (trust_out'.raised /\ users' = users)]_vars

\* the failures get_trust_criteria replaces by a default value
Defaulted(f) ==
    \/ f.call = "wall" /\ f.kind = "ApiError"
    \/ f.call = "reg_date" /\ f.kind = "RuntimeError"
    \/ f.call = "odd_groups"

\* C16: a failing collection call aborts the recomputation and leaves the user
\* records as they were, except for a wall-post ApiError, a registration-date
\* RuntimeError and any odd-groups failure: these are replaced by the defaults
\* no wall posts, no registration date, no odd groups, and a TrustInfo is returned
C16_FailureAbortsUnlessDefaulted ==
    [][AfterFailedCall =>
          IF Defaulted(trust_out'.failure)
          THEN /\ ~trust_out'.raised
               /\ trust_out'.failure.call = "wall" => ~trust_out'.info.has_wall_posts
               /\ trust_out'.failure.call = "reg_date"
                     => trust_out'.info.registration_date = NoDate
               /\ trust_out'.failure.call = "odd_groups" => ~trust_out'.info.odd_groups
          ELSE trust_out'.raised /\ users' = users]_vars

\* a recomputation went on after the registration-date lookup failed, and its
\* result was stored
C16_Witness ==
    /\ trust_out.failure = [call |-> "reg_date", kind |-> "RuntimeError"]
    /\ ~trust_out.raised /\ trust_out.stored
    /\ users[1].trust_info.trust = trust_out.info.trust


(* ======================= ban and amnesty claims ======================= *)
BanOrAmnestyEnded(w) ==
    /\ pc[w] = "done"
    /\ result[w].status \in {"ban_finished", "ban_raised",
                             "amnesty_finished", "amnesty_raised"}

\* C11: a ban or an amnesty of a stored user never ends by raising: it returns
\* after all its steps (trust recomputed, groups cleared or ban deactivated),
\* whichever external calls fail
C11_BanAmnestyNeverRaise ==
    \A w \in Workers :
        (BanOrAmnestyEnded(w) /\ users[arg[w].user_id].exists)
            => result[w].status \in {"ban_finished", "amnesty_finished"}

HasActiveBan(user) ==
    \E i \in 1..Len(user.violations) :
        user.violations[i].type = "banned" /\ user.violations[i].active

\* amnesty_user returns in this step
AmnestyCompletes(w) ==
    /\ pc[w] = "a_trust_again" /\ pc'[w] = "done"
    /\ result'[w].status = "amnesty_finished"

\* C12 as stated: after amnesty the user has no active ban, and the stored trust
\* differs from the one stored before amnesty when the user had an active ban
C12_TrustDiffersAfterAmnesty ==
    [][\A w \in Workers :
          AmnestyCompletes(w) =>
             LET u == arg[w].user_id
             IN /\ ~HasActiveBan(users'[u])
                /\ HasActiveBan(sweep[w].before)
                      => users'[u].trust_info.trust
                           # sweep[w].before.trust_info.trust]_vars

\* the signal sets a recomputation of amnesty_user can go on with
AmnestySignals ==
    Signals \cup {[sig EXCEPT !.registration_date = NoDate] : sig \in Signals}

\* C12: after amnesty the user has no active ban and the stored trust is the
\* value of the formula over the record without the active ban
C12_TrustRecomputedAfterAmnesty ==
    [][\A w \in Workers :
          AmnestyCompletes(w) =>
             LET u == arg[w].user_id
             IN /\ ~HasActiveBan(users'[u])
                /\ \E sig \in AmnestySignals :
                      users'[u].trust_info.trust = TrustFormula(u, sig, today)]_vars

\* an amnesty of a user with an active ban ended, and the stored trust is 0 as
\* it was before: both sums are below 0
C12_Witness ==
    \E w \in Workers :
        /\ pc[w] = "done" /\ result[w].status = "amnesty_finished"
        /\ HasActiveBan(sweep[w].before)
        /\ ~HasActiveBan(users[arg[w].user_id])
        /\ users[arg[w].user_id].trust_info.trust = 0
        /\ sweep[w].before.trust_info.trust = 0


(* ================== asynchronous fulfillment claims =================== *)
\* an item of the history h for group g recorded at time t as not granted
HasNonGranted(h, g, t) ==
    \E i \in 1..Len(h.history) :
        /\ h.history[i].group_id = g /\ h.history[i].date = t
        /\ ~h.history[i].granted /\ ~h.history[i].wip

\* C17: when the role edit of an asynchronous fulfillment fails, a non-granted
\* item is recorded for (user, group) and the failure is notified; no step of
\* the asynchronous path ends with an exception leaving safe_give_editor
C17_EditFailureRecorded ==
    [][\A w \in Workers :
          /\ (pc[w] = "f_edit" /\ pc'[w] # "f_edit")
                => pc'[w] \in {"f_granted", "f_nongranted"}
          /\ (pc[w] = "f_nongranted" /\ pc'[w] # "f_nongranted")
                => /\ pc'[w] = "done" /\ result'[w].status = "f_failed"
                   /\ HasNonGranted(history'[arg[w].user_id], arg[w].group_id, now)
          /\ (pc[w] # "done" /\ pc'[w] = "done" /\ arg'[w].group_id # 0)
                => result'[w].status \in FulfilStatuses]_vars

\* a fulfillment ended after its role edit failed, with the attempt recorded
C17_Witness ==
    \E w \in Workers :
        /\ pc[w] = "done" /\ result[w].status = "f_failed"
        /\ HasNonGranted(history[arg[w].user_id], arg[w].group_id, now)

AnyActive(user) == \E i \in 1..Len(user.violations) : user.violations[i].active

OnCooldown(h, t) ==
    \E i \in 1..Len(h.history) :
        h.history[i].granted /\ t - h.history[i].date < 4

\* the role edit of the fulfillment of worker w succeeds in this step
FulfilGrants(w) == pc[w] = "f_edit" /\ pc'[w] = "f_granted"

\* C18 as stated: asynchronous fulfillment never grants editor to a user with
\* an active violation, trust <= 10, as many groups as the limit allows, or a
\* granted item younger than 4 hours
C18_SameGuardChain ==
    [][\A w \in Workers :
          FulfilGrants(w) =>
             LET user == users[arg[w].user_id]
             IN /\ ~AnyActive(user)
                /\ user.trust_info.trust > 10
                /\ Len(user.groups) < limit(user.trust_info.trust)
                /\ ~OnCooldown(history[arg[w].user_id], now)]_vars

\* C18: asynchronous fulfillment never grants editor to a user whose record,
\* as read at its start, has an active violation or trust <= 10: it then
\* clears the pending attempts and stops
C18_BanAndTrustGuards ==
    [][\A w \in Workers :
          /\ FulfilGrants(w)
                => ~AnyActive(luser[w]) /\ luser[w].trust_info.trust > 10
          /\ (pc[w] = "idle" /\ pc'[w] \notin {"idle", "done"} /\ arg'[w].group_id # 0)
                => (pc'[w] = "f_clear")
                      = (AnyActive(luser'[w]) \/ luser'[w].trust_info.trust <= 10)]_vars

\* a fulfillment granted editor to a user who already holds as many groups as
\* the limit allows
C18_Witness ==
    \E w \in Workers :
        /\ pc[w] = "f_granted"
        /\ ~AnyActive(luser[w]) /\ luser[w].trust_info.trust > 10
        /\ Len(users[arg[w].user_id].groups)
             >= limit(users[arg[w].user_id].trust_info.trust)


(* ======================== requestGrant claims ========================= *)
HasWip(h) == \E i \in 1..Len(h.history) : h.history[i].wip

\* the outcome of the first guard of requestGrant that rejects, or "pass"
FirstRejection(user, h, t) ==
    IF ~user.exists THEN "fail_not_found"
    ELSE IF AnyActive(user) THEN "fail_banned"
    ELSE IF user.trust_info.trust <= 10 THEN "fail_low_trust"
    ELSE IF Len(user.groups) >= limit(user.trust_info.trust) THEN "fail_limit"
    ELSE IF OnCooldown(h, t) THEN "cooldown"
    ELSE IF HasWip(h) THEN "fail_wip"
    ELSE "pass"

\* the guards that come before the one evaluated at the position p
GuardsBefore(p) ==
    IF p = "idle" THEN {}
    ELSE IF p = "g_cooldown"
    THEN {"fail_not_found", "fail_banned", "fail_low_trust", "fail_limit"}
    ELSE {"fail_not_found", "fail_banned", "fail_low_trust", "fail_limit", "cooldown"}

\* worker w evaluates guards of give_editor in this step
GuardStep(w) ==
    /\ pc[w] \in {"idle", "g_cooldown", "g_iswip"} /\ pc'[w] # pc[w]
    /\ arg'[w].group_id = 0

PendingGroups(h, t) ==
    {h.history[i].group_id : i \in {j \in 1..Len(h.history) :
                                      ~h.history[j].granted /\ t - h.history[j].date < 24}}

\* the groups of the cache that the user read by the call is not editor of
Candidates(user) ==
    {g \in GroupIds : \A i \in 1..Len(user.groups) : user.groups[i] # g}

\* C20: the target is the group of a non-granted attempt of the last 24 hours
\* when there is one; otherwise the candidate with the least managers_count,
\* the first of them in cache order; with no candidate the call returns
\* Fail(no-group-available) and the history stays as it was
C20_TargetSelection ==
    [][\A w \in Workers :
          (pc[w] = "g_history" /\ pc'[w] # "g_history"
           /\ history[arg[w].user_id].exists) =>
             LET pending == PendingGroups(history[arg[w].user_id], now)
                 cand == Candidates(luser[w])
             IN IF pending # {}
                THEN pc'[w] = "g_setwip" /\ target'[w] \in pending
                ELSE IF cand = {}
                THEN /\ pc'[w] = "done" /\ result'[w].status = "fail_no_group"
                     /\ history' = history
                ELSE /\ pc'[w] = "g_setwip" /\ target'[w] \in cand
                     /\ \A g \in cand :
                           \/ cache[target'[w]] < cache[g]
                           \/ cache[target'[w]] = cache[g] /\ target'[w] <= g]_vars

\* with nothing pending, group 2 was chosen because it has fewer managers
\* than group 1, which the user is not editor of either
C20_Witness ==
    \E w \in Workers :
        /\ pc[w] = "g_setwip" /\ target[w] = 2
        /\ PendingGroups(history[arg[w].user_id], now) = {}
        /\ 1 \in Candidates(luser[w])
        /\ cache[2] < cache[1]


(* ===================== grant workflow step claims ===================== *)
\* the group the call of worker w is about
GrantGroup(w) == IF arg[w].group_id # 0 THEN arg[w].group_id ELSE target[w]

\* the history of user u holds a wip item for group g
HasWipFor(u, g) ==
    \E i \in 1..Len(history[u].history) :
        history[u].history[i].wip /\ history[u].history[i].group_id = g

\* worker w is about to refresh the snapshot or to ask for the membership
BeforeMembership(w) == pc[w] \in {"g_refresh", "g_member", "f_member"}

\* C21: the WIP write for (user, group) precedes the snapshot refresh and the
\* membership query: whenever a call is about to issue one of them, the
\* history of its user holds a wip item for its group
C21_WipBeforeMembership ==
    \A w \in Workers :
        BeforeMembership(w) => HasWipFor(arg[w].user_id, GrantGroup(w))

\* the items of the history h that are not wip, in order
Settled(h) == FilterSeq(h.history, {x \in Range(h.history) : ~x.wip})

\* C22: once requestGrant has set WIP, the refresh and the membership query
\* answer; for a member the role edit is made, a granted item is recorded, the
\* target is appended to the stored groups and Success(target) is returned;
\* otherwise exactly one non-granted item is recorded, the user records stay
\* as they were and JoinGroup(target) is returned
C22_GrantOutcome ==
    [][\A w \in Workers :
          LET u == arg[w].user_id
              Moves == pc'[w] # pc[w]
          IN /\ (pc[w] = "g_refresh" /\ Moves) => pc'[w] = "g_member"
             /\ (pc[w] = "g_member" /\ Moves) => pc'[w] \in {"g_edit", "g_nongranted"}
             /\ (pc[w] = "g_edit" /\ Moves) => pc'[w] = "g_granted"
             /\ (pc[w] = "g_granted" /\ Moves)
                   => /\ pc'[w] = "g_update" /\ users' = users
                      /\ history'[u].history
                           = Append(Settled(history[u]),
                                    HistItem(target[w], now, TRUE, FALSE))
             /\ (pc[w] = "g_update" /\ Moves)
                   => /\ pc'[w] = "done"
                      /\ result'[w] = Resp("success", target[w])
                      /\ users'[u].groups = Append(luser[w].groups, target[w])
                      /\ history' = history
             /\ (pc[w] = "g_nongranted" /\ Moves)
                   => /\ pc'[w] = "done"
                      /\ result'[w] = Resp("join_group", target[w])
                      /\ users' = users
                      /\ history'[u].history
                           = Append(Settled(history[u]),
                                    HistItem(target[w], now, FALSE, FALSE))]_vars

\* the granted items of the history h, in order
GrantedItems(h) == FilterSeq(h.history, {x \in Range(h.history) : x.granted})

\* worker w leaves its position in this step
Leaves(w, p) == pc[w] = p /\ pc'[w] # p

\* worker w starts an asynchronous fulfillment in this step
FulfilStarts(w) == pc[w] = "idle" /\ pc'[w] # "idle" /\ arg'[w].group_id # 0

\* C23: an asynchronous fulfillment for a user with an active violation or
\* trust <= 10 clears every non-granted item of the user and stops: no wip
\* item is set, no role edit is made, the granted items and the user records
\* stay as they were
C23_RestrictedClears ==
    [][\A w \in Workers :
          /\ (/\ FulfilStarts(w) /\ users[arg'[w].user_id].exists
              /\ \/ AnyActive(users[arg'[w].user_id])
                 \/ users[arg'[w].user_id].trust_info.trust <= 10)
                => pc'[w] = "f_clear"
          /\ Leaves(w, "f_clear")
                => /\ pc'[w] = "done" /\ result'[w].status = "f_cleared"
                   /\ users' = users
                   /\ history'[arg[w].user_id].history
                        = GrantedItems(history[arg[w].user_id])]_vars

\* a fulfillment for a restricted user ended and left the history empty
C23_Witness ==
    \E w \in Workers :
        /\ pc[w] = "done" /\ result[w].status = "f_cleared"
        /\ \/ AnyActive(users[arg[w].user_id])
           \/ users[arg[w].user_id].trust_info.trust <= 10
        /\ history[arg[w].user_id].history = <<>>

\* the history h holds a non-granted item younger than a day at the time t
PendingLastDay(h, t) ==
    \E i \in 1..Len(h.history) :
        ~h.history[i].granted /\ t - h.history[i].date < LastDayHours

\* the step ends the fulfillment of worker w and changes no record
NoOpStep(w) ==
    /\ pc'[w] = "done" /\ result'[w].status = "f_noop"
    /\ users' = users /\ history' = history

C25_NotMemberClearsWip ==
    [][\A w \in Workers :
          Leaves(w, "f_clearwip")
             => /\ pc'[w] = "done"
                /\ result'[w] = Resp("f_left", arg[w].group_id)
                /\ users' = users
                /\ HasWip(history[arg[w].user_id])
                /\ history'[arg[w].user_id].history
                     = Settled(history[arg[w].user_id])]_vars

\* a fulfillment ended with the left-group notification and no wip item is left
C25_Witness ==
    \E w \in Workers :
        /\ pc[w] = "done" /\ result[w].status = "f_left"
        /\ ~HasWip(history[arg[w].user_id])
        /\ PendingLastDay(history[arg[w].user_id], now)


(* ====================== escalation outcome claims ===================== *)
\* the number of green warnings among the violations that are not expired on
\* the given day
NonExpiredGreenWarnings(violations, day) ==
    Cardinality({i \in 1..Len(violations) :
                    /\ violations[i].type = "warned"
                    /\ violations[i].priority = "green"
                    /\ day - violations[i].date < ExpireDays})

\* the step appends the violation v, and nothing else, to the violations of u
AppendsOnly(u, v) ==
    users' = [users EXCEPT ![u] = [@ EXCEPT !.violations = Append(@, v)]]

\* C26: a green report about a user whose record holds c non-expired green
\* warnings appends exactly one violation and notifies it: for c < 2 a green
\* warning that is not active, with new_warning; for c >= 2 an active green
\* ban, with new_ban. When the write fails, nothing is appended or notified
C26_GreenEscalation ==
    [][\A w \in Workers :
          Leaves(w, "t_green") =>
             LET u == llog[w].intruder
                 l == llog[w].watchdog_id
                 c == NonExpiredGreenWarnings(luser[w].violations, today)
                 warning == Violation("warned", llog[w].group_id, "green", today,
                                      FALSE, l, 0)
                 ban == Violation("banned", llog[w].group_id, "green", today,
                                  TRUE, l, 0)
             IN /\ pc'[w] = "t_out"
                /\ \/ /\ c < 2
                      /\ AppendsOnly(u, warning)
                      /\ result'[w] = Resp("new_warning", l)
                   \/ /\ c >= 2
                      /\ AppendsOnly(u, ban)
                      /\ result'[w] = Resp("new_ban", l)
                   \/ /\ users' = users
                      /\ result'[w] = Resp("captured", l)]_vars

\* a green report found two non-expired green warnings and its ban is notified
C26_Witness ==
    \E w \in Workers :
        LET vs == users[1].violations
        IN /\ pc[w] = "t_out" /\ result[w].status = "new_ban"
           /\ Len(vs) = 3
           /\ NonExpiredGreenWarnings(vs, today) = 2
           /\ vs[3].type = "banned" /\ vs[3].priority = "green" /\ vs[3].active

\* the non-green reports about group g whose violation of the given day
\* stands in the record of user u
ReportBans(u, g, day) ==
    {l \in LogIds :
        \E i \in 1..Len(users[u].violations) :
            /\ users[u].violations[i].watchdog_ref = l
            /\ users[u].violations[i].priority # "green"
            /\ users[u].violations[i].group_id = g
            /\ users[u].violations[i].date = day}

\* C27: the non-green reports about the same user, group and date leave a
\* single violation, however many of them there are: no two of them each
\* append one
C27_SingleViolationPerIncident ==
    \A u \in UserIds, g \in GroupIds, day \in 0..MaxDay :
        Cardinality(ReportBans(u, g, day)) <= 1

\* a notification of the escalation
Notifications == {"new_warning", "new_ban"}

\* C28: a notification is emitted only for a violation that was persisted, and
\* a failure of add_violation is captured: no exception leaves the escalation,
\* on the green and on the non-green path
C28_NotifyAfterPersist ==
    \A w \in Workers :
        pc[w] = "t_out"
           => /\ result[w].status \in Notifications \cup {"captured"}
              /\ result[w].status \in Notifications
                    => \E u \in UserIds : ViolationsOfLog(u, result[w].argument) # {}


(* ======================= ban(user) order claims ======================= *)
\* the positions of ban_user_in_groups inside its loop over the groups
SweepPositions == {"b_list", "b_revoke", "b_ban", "b_ban_after"}

\* C29: ban(user) recomputes and stores the trust, then clears the stored groups,
\* then sweeps the groups: the sweep is entered from the clearing only, the
\* clearing from the recomputation only, and while the sweep lists managers,
\* revokes or bans the stored groups of the user are empty
C29_BanOrder ==
    [][\A w \in Workers :
          LET u == arg[w].user_id
          IN /\ (pc'[w] = "b_clear" /\ pc[w] # "b_clear")
                   => /\ pc[w] = "b_trust"
                      /\ users'[u].groups = users[u].groups
                      /\ \E sig \in AmnestySignals :
                            users'[u].trust_info.trust = TrustFormula(u, sig, today)
             /\ (pc'[w] \in SweepPositions /\ pc[w] \notin SweepPositions)
                   => pc[w] = "b_clear"
             /\ pc'[w] \in SweepPositions => users'[u].groups = <<>>
             /\ Leaves(w, "b_clear") => pc'[w] = "b_list"]_vars

\* the sweep of a banned user is about to make its first revocation call: the
\* stored trust is the recomputed one, 0, and the stored groups are empty
C29_Witness ==
    \E w \in Workers :
        /\ pc[w] = "b_revoke" /\ sweep[w].idx = 1
        /\ users[arg[w].user_id].groups = <<>>
        /\ HasActiveBan(users[arg[w].user_id])
        /\ users[arg[w].user_id].trust_info.trust = 0

\* C30: in a group whose managers include the user, ban_in_group is called
\* only after edit_manager succeeded; when edit_manager fails the group gets no
\* ban call and the sweep goes on to the next group; in a group where the user
\* holds no role, ban_in_group is called directly
C30_RevokeBeforeBan ==
    [][\A w \in Workers :
          LET g == sweep[w].idx
              NextOne == /\ sweep'[w].idx = g + 1
                         /\ IF g = NumGroups
                            THEN pc'[w] = "done" /\ result'[w].status = "ban_finished"
                            ELSE pc'[w] = "b_list"
          IN /\ (Leaves(w, "b_list") /\ pc'[w] # "done")
                   => pc'[w] = IF g \in sweep'[w].managed THEN "b_revoke" ELSE "b_ban"
             /\ Leaves(w, "b_revoke")
                   => IF g \in sweep'[w].revoked
                      THEN pc'[w] = "b_ban_after"
                      ELSE NextOne /\ sweep'[w].banned = sweep[w].banned
             /\ pc'[w] = "b_ban_after"
                   => g \in sweep'[w].managed /\ g \in sweep'[w].revoked
             /\ pc'[w] = "b_ban" => sweep'[w].idx \notin sweep'[w].managed
             /\ sweep'[w].banned \cap sweep'[w].managed \subseteq sweep'[w].revoked]_vars

\* a sweep went past a group whose revocation failed without banning there,
\* and is about to ban in the next group after a revocation that succeeded
C30_Witness ==
    \E w \in Workers :
        /\ pc[w] = "b_ban_after" /\ sweep[w].idx = 2
        /\ 1 \in sweep[w].managed /\ 1 \notin sweep[w].revoked
        /\ 1 \notin sweep[w].banned
        /\ 2 \in sweep[w].revoked


(* ====================== amnesty(user) order claims ==================== *)
\* worker w arrives at the position p in this step
Enters(w, p) == pc'[w] = p /\ pc[w] # p

\* C31: amnesty(user) deactivates the active ban, then recomputes and stores the
\* trust, then attempts the unban in every managed group, then recomputes the
\* trust again; a failed unban in one group stops neither the attempts in the
\* groups after it nor the last recomputation
C31_AmnestyOrder ==
    [][\A w \in Workers :
          LET u == arg[w].user_id
              g == sweep[w].idx
          IN /\ Enters(w, "a_trust")
                   => pc[w] = "a_unban" /\ ~HasActiveBan(users'[u])
             /\ Enters(w, "a_group")
                   => /\ pc[w] = "a_trust" /\ sweep'[w].idx = 1
                      /\ sweep'[w].attempted = {}
                      /\ \E sig \in AmnestySignals :
                            users'[u].trust_info.trust = TrustFormula(u, sig, today)
             /\ (pc[w] = "a_group" /\ sweep'[w] # sweep[w])
                   => /\ sweep'[w].attempted = sweep[w].attempted \cup {g}
                      /\ sweep'[w].idx = g + 1
                      /\ pc'[w] = IF g = NumGroups THEN "a_trust_again" ELSE "a_group"
                      /\ users' = users
             /\ Enters(w, "a_trust_again")
                   => pc[w] = "a_group" /\ sweep'[w].attempted = GroupIds
             /\ AmnestyCompletes(w)
                   => \E sig \in AmnestySignals :
                         users'[u].trust_info.trust = TrustFormula(u, sig, today)]_vars

\* an amnesty ended after the unban failed in the first group: the second
\* group was still attempted and the trust was recomputed at the end
C31_Witness ==
    \E w \in Workers :
        /\ pc[w] = "done" /\ result[w].status = "amnesty_finished"
        /\ sweep[w].attempted = GroupIds
        /\ 1 \notin sweep[w].banned /\ 2 \in sweep[w].banned
        /\ ~HasActiveBan(users[arg[w].user_id])


(* ===================== scheduled trust sweep claims =================== *)
\* the users of the list the pass of worker w works through
Outdated(w) == {sweep[w].outdated[i] : i \in 1..Len(sweep[w].outdated)}

\* C32: a failed recomputation in the scheduled trust sweep costs that one user
\* only: the loop is never left by an exception, and when a pass is over
\* every outdated user but those whose recomputation failed was recomputed
C32_SweepSurvivesFailure ==
    \A w \in Workers :
        LET raised == pc[w] = "done" /\ result[w].status = "sweep_raised"
            failed == IF raised THEN {result[w].argument} ELSE {}
        IN /\ ~raised
           /\ (raised \/ pc[w] = "s_sleep")
                 => Outdated(w) \ failed \subseteq sweep[w].attempted


(* ======================== limit(trust) claims ========================= *)
\* worker w holds the guard and the limit evaluated for the trust target[w]
Evaluated(w) == pc[w] = "done" /\ result[w].status \in {"allowed", "denied"}

\* C33: limit(trust) is the step table 0, 1, 3, 5, 10, 15, 20, 25, 30 with the
\* steps at 10, 20, ..., 80; it never decreases when the trust grows over
\* 0..100; and it is above 0 exactly when the trust guard trust > 10 passes
C33_LimitTable ==
    \A w \in Workers :
        Evaluated(w) =>
            LET trust == target[w]
                value == result[w].argument
            IN /\ value = limit(trust)
               /\ \A lower \in 0..trust : limit(lower) <= value
               /\ (value > 0) = (result[w].status = "allowed")
               /\ (result[w].status = "allowed") = (trust > 10)

\* the limit was evaluated at the last trust of a step: 70 allows 20 groups
C33_Witness ==
    \E w \in Workers :
        /\ Evaluated(w) /\ target[w] = 70
        /\ result[w] = Resp("allowed", 20)


(* =================== update_watchdog_log claims ======================= *)
\* the step is a call of update_watchdog_log by worker w that returns or raises
UpdateCall(w) == pc[w] = "idle" /\ pc'[w] = "done"

UpdateFailed(w) ==
    result'[w].status \in {"WatchdogNotFoundError", "UserNotFoundError"}

\* no step changes or unsets the intruder of a stored log that has one
IntruderKept ==
    \A l \in LogIds :
        wlogs[l].exists /\ wlogs[l].intruder # 0 =>
            wlogs'[l].exists /\ wlogs'[l].intruder = wlogs[l].intruder

\* C34 as stated: a set intruder is never changed or unset, and every update
\* that names an intruder that does not exist fails and leaves the log unchanged
C34_IntruderSetOnce ==
    [][/\ IntruderKept
       /\ \A w \in Workers :
            (/\ UpdateCall(w)
             /\ arg'[w].user_id # 0
             /\ ~users[arg'[w].user_id].exists)
                => UpdateFailed(w) /\ wlogs' = wlogs]_vars

\* C34 amended: a set intruder is never changed or unset, and an update of a
\* log without an intruder that names an intruder that does not exist fails and
\* leaves the stored log unchanged
C34_IntruderSetOnceWhenUnset ==
    [][/\ IntruderKept
       /\ \A w \in Workers :
            (/\ UpdateCall(w)
             /\ arg'[w].user_id # 0
             /\ ~users[arg'[w].user_id].exists
             /\ wlogs[target'[w]].intruder = 0)
                => UpdateFailed(w) /\ wlogs' = wlogs]_vars

\* an update that named the other existing user returned, and the log still
\* has the intruder it had
C34_Witness ==
    \E w \in Workers :
        /\ pc[w] = "done" /\ result[w].status = "updated"
        /\ arg[w].user_id = 2 /\ users[2].exists
        /\ wlogs[target[w]].intruder = 1


(* ========================= wip release claims ========================= *)
\* the positions of give_editor and of the fulfilment after their set_wip
WipSteps == {"g_refresh", "g_member", "g_edit", "g_granted", "g_update",
             "g_nongranted", "f_member", "f_clearwip", "f_edit", "f_granted",
             "f_nongranted"}

\* C35: an attempt that has set WIP and ends, whichever way (granted,
\* join-group, left-group, failed role edit, or an exception of the snapshot
\* refresh or of the membership query), leaves the user without a WIP item
C35_NoWipLeftBehind ==
    [][\A w \in Workers :
          pc[w] \in WipSteps /\ pc'[w] = "done"
              => ~HasWip(history'[arg[w].user_id])]_vars


(* ===================== ban against grant claims ======================= *)
\* ban_user_in_groups(u) has returned and its worker has not moved on
BanCompleted(u) ==
    \E w \in Workers : pc[w] = "done" /\ result[w] = Resp("ban_finished", u)

\* C36: once the ban of a user has completed, and while no amnesty has run,
\* the stored groups of the user are empty, whatever a give_editor call that
\* read the user before the ban writes back
C36_BannedGroupsStayEmpty ==
    \A u \in UserIds : BanCompleted(u) => users[u].groups = <<>>


(* =================== join event group claims ========================== *)
\* the history h holds a settled attempt for group g that was not granted
PendingFor(h, g) ==
    \E i \in 1..Len(h.history) :
        h.history[i].group_id = g /\ ~h.history[i].granted /\ ~h.history[i].wip

\* the fulfilment of worker w calls edit_manager in this step
RoleEdit(w) == pc[w] = "f_edit" /\ pc'[w] \in {"f_granted", "f_nongranted"}

\* the fulfilment of worker w records its granted item in this step
RecordsGrant(w) == pc[w] = "f_granted" /\ pc'[w] # "f_granted"

\* C37 as stated: the fulfilment of a join event for a group g calls the role
\* edit and records a granted item for g only if the user has a pending
\* non-granted attempt for g
C37_GrantsOnlyPendingGroup ==
    [][\A w \in Workers :
          RoleEdit(w) \/ RecordsGrant(w)
              => PendingFor(history[arg[w].user_id], arg[w].group_id)]_vars

\* C37 amended: the fulfilment of a join event for a group g goes past its
\* history check only if the user has a non-granted attempt from the last 24h,
\* for whichever group; the role edit and the granted item come only after
\* that check and are for the group g of the event
C37_GrantsOnPendingAttempt ==
    [][\A w \in Workers :
          LET u == arg[w].user_id
          IN /\ Enters(w, "f_setwip")
                   => pc[w] = "f_history" /\ PendingLastDay(history[u], now)
             /\ Enters(w, "f_member") => pc[w] = "f_setwip"
             /\ Enters(w, "f_edit") => pc[w] = "f_member"
             /\ Enters(w, "f_granted") => pc[w] = "f_edit"
             /\ RecordsGrant(w)
                   => /\ Len(history'[u].history) > 0
                      /\ history'[u].history[Len(history'[u].history)]
                           = HistItem(arg[w].group_id, now, TRUE, FALSE)]_vars

\* a join event for group 2 ended with the grant while the only pending
\* attempt of the user is for group 1
C37_Witness ==
    \E w \in Workers :
        /\ pc[w] = "done" /\ result[w] = Resp("f_granted", 2)
        /\ PendingFor(history[arg[w].user_id], 1)
        /\ ~PendingFor(history[arg[w].user_id], 2)


(* ========================= use_invite claims ========================== *)
\* the step is a use_invite call of worker w
InviteCall(w) == pc[w] = "idle" /\ pc'[w] = "done"

\* C39: over any sequence of use_invite calls a user's invited_by, once set,
\* is never assigned again; it is never the user itself; no two users have
\* each other as invited_by; and a call that is rejected changes no user record
C39_InviteRelation ==
    [][/\ \A u \in UserIds :
            /\ users[u].invited_by # 0 => users'[u].invited_by = users[u].invited_by
            /\ users'[u].invited_by # u
            /\ \A v \in UserIds :
                 ~(users'[u].invited_by = v /\ users'[v].invited_by = u)
       /\ \A w \in Workers :
            InviteCall(w) /\ result'[w].status # "success" => users' = users]_vars

\* user 1 was invited by user 2 and the invite of user 1 was then refused to
\* user 2
C39_Witness ==
    \E w \in Workers :
        /\ pc[w] = "done" /\ result[w] = Resp("user_is_invited_by_you", 1)
        /\ arg[w].user_id = 2
        /\ users[1].invited_by = 2 /\ users[2].invited_by = 0


(* ======================= complaint ban claims ========================= *)
\* the violations of user u that refer to the request r
RequestBans(u, r) ==
    {i \in 1..Len(users[u].violations) : users[u].violations[i].request_ref = r}

\* C38: whatever the sequence of status updates of a complaint request, with
\* answered set back to false and to true again, at most one violation refers
\* to the request: the teal ban is applied at most once per request
C38_TealBanOncePerRequest ==
    \A r \in RequestIds, u \in UserIds :
        requests[r].exists /\ requests[r].request_type = "complaint"
            => Cardinality(RequestBans(u, r)) <= 1


(* ========================= task queue claims ========================== *)
\* the function of the task t is called in this step
Executes(t) == tqueue'.tasks[t].runs > tqueue.tasks[t].runs

\* cancel_task(t) returns true in this step
CancelReturnsTrue(t) ==
    tqueue.tasks[t].status # "cancelled" /\ tqueue'.tasks[t].status = "cancelled"

\* the tasks dequeue may choose from: in the heap and pending
PendingQueued == {t \in TaskIds : /\ tqueue.tasks[t].exists /\ tqueue.tasks[t].queued
                                  /\ tqueue.tasks[t].status = "pending"}

\* process_queue called without max_tasks returns in this step
ReturnsUnlimited(w) ==
    pc[w] \in {"q_dequeue", "q_run"} /\ pc'[w] = "idle" /\ tqueue.max_tasks = 0

Max(a, b) == IF a >= b THEN a ELSE b

QueueSteps ==
    /\ \A t \in TaskIds :
         /\ Executes(t) => tqueue.tasks[t].status = "pending"
         /\ tqueue.tasks[t].status = "cancelled"
               => /\ ~Executes(t)
                  /\ tqueue'.tasks[t].status = "cancelled"
         /\ CancelReturnsTrue(t) => tqueue.tasks[t].status = "pending"
         /\ tqueue'.tasks[t].runs
               <= Max(1, tqueue'.tasks[t].max_retries)
    /\ \A w \in Workers :
         /\ pc[w] = "q_dequeue" /\ pc'[w] = "q_run"
               => /\ target'[w] \in PendingQueued
                  /\ \A t \in PendingQueued :
                       -tqueue.tasks[t].priority <= -tqueue.tasks[target'[w]].priority
         /\ pc[w] = "q_dequeue" /\ pc'[w] = "idle" => PendingQueued = {}
         /\ ReturnsUnlimited(w)
               => \A t \in tqueue.results :
                     tqueue'.tasks[t].status \in {"completed", "failed"}

\* C40: over any sequence of enqueue, cancel_task and process_queue calls a
\* task's function is called only while the task is PENDING and never after
\* cancel_task returned true for it; dequeue returns a pending task of the
\* highest priority among the queued ones; a task is executed at most
\* max(1, max_retries) times; and process_queue without max_tasks terminates
\* with every task it processed COMPLETED or FAILED
C40_QueueContract ==
    /\ [][QueueSteps]_vars
    /\ \A w \in QueueWorkers :
         (pc[w] \in {"q_dequeue", "q_run"} /\ tqueue.max_tasks = 0) ~> (pc[w] = "idle")

\* process_queue has returned; one task failed on each of its max_retries
\* runs, the other was cancelled and never ran
C40_Witness ==
    /\ QueueIdle
    /\ \E t, c \in TaskIds :
         /\ tqueue.tasks[t].status = "failed"
         /\ tqueue.tasks[t].runs = MaxTaskRetries
         /\ tqueue.tasks[t].max_retries = MaxTaskRetries
         /\ tqueue.tasks[c].status = "cancelled" /\ tqueue.tasks[c].runs = 0

====
